---- MODULE Spec2Model ----
(***************************************************************************)
(* railrepay-shared-libs: the metrics pusher, the Kafka consumer, the      *)
(* PostgreSQL client and the Redis cache as state machines.                *)
(*                                                                         *)
(* Every async method is split at its awaits: the statements up to an      *)
(* await are one action, the continuation after it another, so that other  *)
(* callbacks of the single-threaded event loop interleave exactly where    *)
(* the code suspends.                                                       *)
(***************************************************************************)
EXTENDS Integers, Sequences, FiniteSets, Bags, TLC

\* ------------------------------------------------------------------ bounds
\* async pushMetrics()/start() invocations in flight at once
MaxCalls == 2
\* interval timers handed out by setInterval over a run
MaxTimers == 2
\* messages on the subscribed topic
MaxMsgs == 3
\* redis clients created by connect() over a run
MaxClients == 2

\* -------------------------------------------------------- program constants
\* pusher.ts:75   (config.pushInterval ?? 15) * 1000
DefaultPushInterval == 15
MsPerSecond == 1000

Undefined == "undefined"
Null == "null"

\* =========================================================================
\* MetricsPusher.parsePrometheusMetrics   (pusher.ts:211-238)
\* Text is a sequence of one-character strings.
\* =========================================================================
Digits == {"0", "1", "2", "3", "4", "5", "6", "7", "8", "9"}
Lower == {"a", "b", "c", "d", "e", "f", "g", "h", "i", "j", "k", "l", "m",
          "n", "o", "p", "q", "r", "s", "t", "u", "v", "w", "x", "y", "z"}
Upper == {"A", "B", "C", "D", "E", "F", "G", "H", "I", "J", "K", "L", "M",
          "N", "O", "P", "Q", "R", "S", "T", "U", "V", "W", "X", "Y", "Z"}
\* \s
Whitespace == {" ", "\t", "\r", "\n", "\f"}
\* [a-zA-Z_:]
NameStart == Lower \cup Upper \cup {"_", ":"}
\* [a-zA-Z0-9_:]
NameChar == NameStart \cup Digits
\* [0-9.eE+-]
ValueChar == Digits \cup {".", "e", "E", "+", "-"}

DigitVal(c) ==
  CASE c = "0" -> 0 [] c = "1" -> 1 [] c = "2" -> 2 [] c = "3" -> 3
    [] c = "4" -> 4 [] c = "5" -> 5 [] c = "6" -> 6 [] c = "7" -> 7
    [] c = "8" -> 8 [] c = "9" -> 9

\* the longest prefix of s whose characters all lie in class
RECURSIVE Run(_, _)
Run(s, class) ==
  IF s # <<>> /\ Head(s) \in class
  THEN <<Head(s)>> \o Run(Tail(s), class)
  ELSE <<>>

\* s without its first n characters
Drop(s, n) == SubSeq(s, n + 1, Len(s))

\* metricsString.split('\n')
RECURSIVE SplitAcc(_, _)
SplitAcc(s, cur) ==
  IF s = <<>> THEN <<cur>>
  ELSE IF Head(s) = "\n" THEN <<cur>> \o SplitAcc(Tail(s), <<>>)
  ELSE SplitAcc(Tail(s), Append(cur, Head(s)))

SplitLines(text) == SplitAcc(text, <<>>)

\* line.startsWith('#') || !line.trim()
SkipLine(line) ==
  \/ (line # <<>> /\ Head(line) = "#")
  \/ \A i \in 1..Len(line) : line[i] \in Whitespace

\* line.match(/^([a-zA-Z_:][a-zA-Z0-9_:]*)/): the captured name, <<>> for null
NameMatch(line) ==
  IF line # <<>> /\ Head(line) \in NameStart
  THEN <<Head(line)>> \o Run(Tail(line), NameChar)
  ELSE <<>>

\* /\s+([0-9.eE+-]+)(?:\s+\d+)?$/ tried with the match starting at index i:
\* the captured token, <<>> when the pattern does not match from there
ValueMatchAt(line, i) ==
  LET rest == Drop(line, i - 1)
      ws == Run(rest, Whitespace)
      afterWs == Drop(rest, Len(ws))
      tok == Run(afterWs, ValueChar)
      afterTok == Drop(afterWs, Len(tok))
      ws2 == Run(afterTok, Whitespace)
      ts == Run(Drop(afterTok, Len(ws2)), Digits)
      tail == Drop(Drop(afterTok, Len(ws2)), Len(ts))
  IN IF ws = <<>> \/ tok = <<>> THEN <<>>
     ELSE IF afterTok = <<>> THEN tok
     ELSE IF ws2 # <<>> /\ ts # <<>> /\ tail = <<>> THEN tok
     ELSE <<>>

\* line.match(...): the leftmost start index that matches wins
RECURSIVE ValueMatchFrom(_, _)
ValueMatchFrom(line, i) ==
  IF i > Len(line) THEN <<>>
  ELSE IF ValueMatchAt(line, i) # <<>> THEN ValueMatchAt(line, i)
  ELSE ValueMatchFrom(line, i + 1)

ValueMatch(line) == ValueMatchFrom(line, 1)

\* the decimal number a digit string denotes, acc carried from the left
RECURSIVE DigitsValue(_, _)
DigitsValue(ds, acc) ==
  IF ds = <<>> THEN acc ELSE DigitsValue(Tail(ds), acc * 10 + DigitVal(Head(ds)))

\* a number m * 10^e in canonical form: m carries no trailing zero
RECURSIVE Num(_, _)
Num(m, e) ==
  IF m = 0 THEN [nan |-> FALSE, m |-> 0, e |-> 0]
  ELSE IF m % 10 = 0 THEN Num(m \div 10, e + 1)
  ELSE [nan |-> FALSE, m |-> m, e |-> e]

NaN == [nan |-> TRUE, m |-> 0, e |-> 0]

\* isNaN(v)
IsNaN(v) == v.nan

\* parseFloat(tok): the longest prefix that is a decimal literal
\*   [+-]? (digits [. digits?]? | . digits) ([eE] [+-]? digits)?
ParseFloat(tok) ==
  LET signed == tok # <<>> /\ Head(tok) \in {"+", "-"}
      neg == signed /\ Head(tok) = "-"
      s1 == IF signed THEN Tail(tok) ELSE tok
      int == Run(s1, Digits)
      s2 == Drop(s1, Len(int))
      dot == s2 # <<>> /\ Head(s2) = "."
      frac == IF dot THEN Run(Tail(s2), Digits) ELSE <<>>
      s3 == IF dot THEN Drop(s2, 1 + Len(frac)) ELSE s2
      hasE == s3 # <<>> /\ Head(s3) \in {"e", "E"}
      s4 == IF hasE THEN Tail(s3) ELSE <<>>
      eSigned == s4 # <<>> /\ Head(s4) \in {"+", "-"}
      eNeg == eSigned /\ Head(s4) = "-"
      eDigits == Run(IF eSigned THEN Tail(s4) ELSE s4, Digits)
      exp == IF eDigits = <<>> THEN 0
             ELSE IF eNeg THEN 0 - DigitsValue(eDigits, 0)
             ELSE DigitsValue(eDigits, 0)
      mant == DigitsValue(int \o frac, 0)
  IN IF int = <<>> /\ frac = <<>> THEN NaN
     ELSE Num(IF neg THEN 0 - mant ELSE mant, exp - Len(frac))

\* metrics[metricName] = numericValue on a Record<string, number>
SetKey(metrics, k, v) ==
  [n \in (DOMAIN metrics) \cup {k} |-> IF n = k THEN v ELSE metrics[n]]

EmptyMetrics == [n \in {} |-> 0]

\* the body of the for loop for one line
ParseLine(metrics, line) ==
  IF SkipLine(line) THEN metrics
  ELSE IF NameMatch(line) # <<>> /\ ValueMatch(line) # <<>>
          /\ ~IsNaN(ParseFloat(ValueMatch(line)))
       THEN SetKey(metrics, NameMatch(line), ParseFloat(ValueMatch(line)))
       ELSE metrics

RECURSIVE ParseLines(_, _)
ParseLines(metrics, lines) ==
  IF lines = <<>> THEN metrics
  ELSE ParseLines(ParseLine(metrics, Head(lines)), Tail(lines))

parsePrometheusMetrics(metricsString) ==
  ParseLines(EmptyMetrics, SplitLines(metricsString))

\* ---- registry snapshots a push cycle may read
\* ""
TextEmpty == <<>>
\* "# a\n"
TextComment == <<"#", " ", "a", "\n">>
\* "requests_total 42\n"
TextRequests ==
  <<"r", "e", "q", "u", "e", "s", "t", "s", "_", "t", "o", "t", "a", "l",
    " ", "4", "2", "\n">>
\* "up{a=\"x\"} 1\nup{a=\"y\"} 2 17\n"
TextLabelled ==
  <<"u", "p", "{", "a", "=", "\"", "x", "\"", "}", " ", "1", "\n",
    "u", "p", "{", "a", "=", "\"", "y", "\"", "}", " ", "2", " ", "1", "7", "\n">>

RegistryTexts == {TextEmpty, TextComment, TextRequests, TextLabelled}

\* this.parsePrometheusMetrics(metricsString), line 161, per snapshot
Parsed == [text \in RegistryTexts |-> parsePrometheusMetrics(text)]

\* =========================================================================
\* MetricsPusher   (pusher.ts:59-198)
\* =========================================================================
VARIABLES
  mp_alloyUrl,        \* this.alloyUrl ("" when not configured)
  mp_pushIntervalMs,  \* this.pushIntervalMs
  mp_isRunning,       \* this.isRunning
  mp_intervalId,      \* this.intervalId: a timer id, 0 for undefined
  mp_timers,          \* the runtime's live interval timers: [id, ms] records
  mp_nextTimer,       \* the id the next setInterval returns
  mp_calls,           \* the async invocations in flight: a bag of records
  mp_remote,          \* the forwarding calls the latest step made: their arguments
  mp_log,             \* what the latest step logged
  mp_last,            \* the latest step and its outcome
  mp_afterStop        \* stop() has returned and start() was not called since

mp_vars ==
  <<mp_alloyUrl, mp_pushIntervalMs, mp_isRunning, mp_intervalId, mp_timers,
    mp_nextTimer, mp_calls, mp_remote, mp_log, mp_last, mp_afterStop>>

ServiceName == "test-service"
Environment == "test"
ConfigUrl == "http://alloy:9091/api/v1/metrics/write"

\* a || b on strings
OrElse(a, b) == IF a \in {Undefined, Null, ""} THEN b ELSE a
\* a ?? b on an optional number: <<>> for undefined, <<n>> for n
Coalesce(a, b) == IF a = <<>> THEN b ELSE a[1]

\* the configurations and environments a pusher is constructed with
MpConfigs ==
  [alloyUrl : {Undefined, ConfigUrl}, pushInterval : {<<>>, <<30>>}]
MpEnvs == [ALLOY_PUSH_URL : {Undefined}]

\* constructor, lines 74-75
MpAlloyUrl(config, env) == OrElse(OrElse(config.alloyUrl, env.ALLOY_PUSH_URL), "")
MpPushIntervalMs(config) ==
  Coalesce(config.pushInterval, DefaultPushInterval) * MsPerSecond

\* an invocation in flight: kind is who called pushMetrics(), pc the await it
\* is suspended at, stopped whether stop() took effect since a start() began,
\* text the snapshot it read and fwd the forwarding calls it has made
MpCall(kind, pc, stopped) ==
  [kind |-> kind, pc |-> pc, stopped |-> stopped, text |-> <<>>, fwd |-> 0]

\* the latest step: read says a snapshot was read, text is that snapshot,
\* fwd the forwarding calls of the push cycle that settled
MpLast ==
  [op |-> "new", kind |-> "-", status |-> "-", failed |-> FALSE,
   read |-> FALSE, text |-> <<>>, fwd |-> 0, stopped |-> FALSE]

MpInit ==
  /\ \E config \in MpConfigs, env \in MpEnvs :
       /\ mp_alloyUrl = MpAlloyUrl(config, env)
       /\ mp_pushIntervalMs = MpPushIntervalMs(config)
  /\ mp_isRunning = FALSE
  /\ mp_intervalId = 0
  /\ mp_timers = {}
  /\ mp_nextTimer = 1
  /\ mp_calls = EmptyBag
  /\ mp_remote = <<>>
  /\ mp_log = <<>>
  /\ mp_last = MpLast
  /\ mp_afterStop = FALSE

MpInFlight == BagToSet(mp_calls)
MpRoom == BagCardinality(mp_calls) < MaxCalls
MpStarts == {c \in MpInFlight : c.kind = "start"}
MpStartCount == BagCardinality([c \in MpStarts |-> mp_calls[c]])
MpAdd(calls, c) == calls (+) SetToBag({c})
MpRemove(calls, c) == calls (-) SetToBag({c})

\* (the guard of line 84 left out)
AlreadyRunning_Never == FALSE
\* start(), line 84: if (this.isRunning)
AlreadyRunning == mp_isRunning
\* start(), line 91 / pushMetrics(), line 152: if (!this.alloyUrl)
NoEndpoint == mp_alloyUrl = ""
\* (the empty check of line 163 left out)
NothingToPush_Never(metrics) == FALSE
\* pushMetrics(), line 163: Object.keys(metrics).length === 0
NothingToPush(metrics) == DOMAIN metrics = {}
\* (a catch block that rethrows, as connect() of the other clients does)
PushOutcome_Rethrow(failed) == IF failed THEN "rejected" ELSE "resolved"
\* pushMetrics(), lines 183-190: the catch block logs and does not rethrow
PushOutcome(failed) == "resolved"
\* stop(), line 129: if (!this.isRunning) return
StopIdle == ~mp_isRunning
\* (line 138 left out: the flag keeps its value)
StopRunning_Kept == mp_isRunning
\* stop(), line 138: this.isRunning = false
StopRunning == FALSE

\* pushMetrics(), lines 171-177: the forwarding call's arguments
ForwardArgs(metrics) ==
  [metrics |-> metrics, url |-> mp_alloyUrl,
   labels |-> [service |-> ServiceName, environment |-> Environment]]

\* start() up to its await, lines 83-107
MpStart ==
  /\ mp_afterStop' = FALSE
  /\ mp_remote' = <<>>
  /\ IF AlreadyRunning
     THEN /\ mp_log' = <<"warn: Metrics pusher already running">>
          /\ mp_last' = [MpLast EXCEPT !.op = "start", !.status = "already"]
          /\ UNCHANGED <<mp_isRunning, mp_calls>>
     ELSE IF NoEndpoint
     THEN /\ mp_log' = <<"warn: Alloy URL not configured - metrics push disabled">>
          /\ mp_last' = [MpLast EXCEPT !.op = "start", !.status = "disabled"]
          /\ UNCHANGED <<mp_isRunning, mp_calls>>
     ELSE /\ MpRoom
          /\ mp_nextTimer + MpStartCount <= MaxTimers
          /\ mp_log' = <<"info: Starting metrics pusher">>
          /\ mp_isRunning' = TRUE
          /\ mp_calls' = MpAdd(mp_calls, MpCall("start", "read", FALSE))
          /\ mp_last' = [MpLast EXCEPT !.op = "start", !.status = "pushing"]
  /\ UNCHANGED <<mp_alloyUrl, mp_pushIntervalMs, mp_intervalId, mp_timers,
                 mp_nextTimer>>

\* start() after its await, lines 109-123: setInterval and the final log
MpStartResume(c) ==
  /\ c \in MpInFlight
  /\ c.kind = "start"
  /\ c.pc = "resume"
  /\ mp_intervalId' = mp_nextTimer
  /\ mp_timers' = mp_timers \cup {[id |-> mp_nextTimer, ms |-> mp_pushIntervalMs]}
  /\ mp_nextTimer' = mp_nextTimer + 1
  /\ mp_calls' = MpRemove(mp_calls, c)
  /\ mp_remote' = <<>>
  /\ mp_log' = <<"info: Metrics pusher started successfully">>
  /\ mp_last' = [MpLast EXCEPT !.op = "started", !.status = "resolved",
                               !.stopped = c.stopped]
  /\ UNCHANGED <<mp_alloyUrl, mp_pushIntervalMs, mp_isRunning, mp_afterStop>>

\* the in-flight start() invocations, marked as overtaken by a stop()
MpMarkStopped(calls) ==
  LET mark(c) == IF c.kind = "start" THEN [c EXCEPT !.stopped = TRUE] ELSE c
      count(c) == IF c \in DOMAIN calls THEN calls[c] ELSE 0
      unmarked(d) == [d EXCEPT !.stopped = FALSE]
  IN [d \in {mark(c) : c \in DOMAIN calls} |->
        IF d.kind = "start" THEN count(d) + count(unmarked(d)) ELSE count(d)]

\* stop(), lines 128-143
MpStop ==
  /\ mp_afterStop' = TRUE
  /\ mp_remote' = <<>>
  /\ IF StopIdle
     THEN /\ mp_log' = <<>>
          /\ mp_last' = [MpLast EXCEPT !.op = "stop", !.status = "idle"]
          /\ UNCHANGED <<mp_isRunning, mp_intervalId, mp_timers, mp_calls>>
     ELSE /\ mp_timers' = {t \in mp_timers : t.id # mp_intervalId}
          /\ mp_intervalId' = 0
          /\ mp_isRunning' = StopRunning
          /\ mp_calls' = MpMarkStopped(mp_calls)
          /\ mp_log' = <<"info: Metrics pusher stopped">>
          /\ mp_last' = [MpLast EXCEPT !.op = "stop", !.status = "stopped"]
  /\ UNCHANGED <<mp_alloyUrl, mp_pushIntervalMs, mp_nextTimer>>

\* pushMetrics() up to its await, lines 151-158, for a caller of the given
\* kind: with no endpoint it returns at once
MpBeginPush(kind) ==
  /\ IF NoEndpoint
     THEN /\ mp_last' = [MpLast EXCEPT !.op = "settled", !.kind = kind,
                                      !.status = "resolved"]
          /\ UNCHANGED mp_calls
     ELSE /\ MpRoom
          /\ mp_calls' = MpAdd(mp_calls, MpCall(kind, "read", FALSE))
          /\ mp_last' = [MpLast EXCEPT !.op = "push", !.kind = kind]
  /\ mp_log' = <<>>
  /\ mp_remote' = <<>>
  /\ UNCHANGED <<mp_alloyUrl, mp_pushIntervalMs, mp_isRunning, mp_intervalId,
                 mp_timers, mp_nextTimer, mp_afterStop>>

\* pushMetrics() called by the application (a one-shot push)
MpPush == MpBeginPush("manual")

\* one tick of a live interval timer: the callback of lines 110-118
MpTick(t) == t \in mp_timers /\ MpBeginPush("tick")

\* the promise of pushMetrics() settles for invocation c: an awaiting start()
\* is resumed or rejects (line 107), a tick's .catch logs (lines 111-117)
MpSettle(c, failed, read, text, logs) ==
  LET status == PushOutcome(failed)
  IN /\ mp_calls' = IF c.kind = "start" /\ status = "resolved"
                    THEN MpAdd(MpRemove(mp_calls, c),
                               MpCall("start", "resume", c.stopped))
                    ELSE MpRemove(mp_calls, c)
     /\ mp_log' = logs \o (IF c.kind = "tick" /\ status = "rejected"
                           THEN <<"error: Error pushing metrics">>
                           ELSE <<>>)
     /\ mp_remote' = <<>>
     /\ mp_last' = [MpLast EXCEPT !.op = "settled", !.kind = c.kind,
                                  !.status = status, !.failed = failed,
                                  !.read = read, !.text = text,
                                  !.fwd = c.fwd]

\* pushMetrics() after await registry.metrics(), lines 158-177
MpReadDone(c) ==
  /\ c \in MpInFlight
  /\ c.pc = "read"
  /\ \/ \* registry.metrics() rejected
        MpSettle(c, TRUE, FALSE, <<>>, <<"error: Failed to push metrics">>)
     \/ \E text \in RegistryTexts :
          IF NothingToPush(Parsed[text])
          THEN MpSettle(c, FALSE, TRUE, text, <<"warn: No metrics to push">>)
          ELSE /\ mp_calls' = MpAdd(MpRemove(mp_calls, c),
                                    [c EXCEPT !.pc = "forward", !.text = text,
                                              !.fwd = @ + 1])
               /\ mp_remote' = <<ForwardArgs(Parsed[text])>>
               /\ mp_log' = <<>>
               /\ mp_last' = [MpLast EXCEPT !.op = "forward", !.kind = c.kind,
                                            !.read = TRUE, !.text = text]
  /\ UNCHANGED <<mp_alloyUrl, mp_pushIntervalMs, mp_isRunning, mp_intervalId,
                 mp_timers, mp_nextTimer, mp_afterStop>>

\* pushMetrics() after the awaited forwarding call, lines 171-190
MpForwardDone(c) ==
  /\ c \in MpInFlight
  /\ c.pc = "forward"
  /\ \/ MpSettle(c, FALSE, TRUE, c.text, <<"debug: Pushed metrics successfully">>)
     \/ MpSettle(c, TRUE, TRUE, c.text, <<"error: Failed to push metrics">>)
  /\ UNCHANGED <<mp_alloyUrl, mp_pushIntervalMs, mp_isRunning, mp_intervalId,
                 mp_timers, mp_nextTimer, mp_afterStop>>

\* =========================================================================
\* KafkaConsumer   (kafka-client/src/index.ts:63-296)
\* The kafkajs consumer is the library side: it settles connect, subscribe,
\* run and disconnect, and its runner calls eachMessage for one message at a
\* time, waiting for the returned promise before it fetches the next, and
\* delivers a message again when that promise rejects.
\* =========================================================================
VARIABLES
  kc_isRunning,     \* this.isRunning
  kc_stats,         \* this.stats
  kc_pc,            \* where connect(), subscribe(), disconnect() are suspended
  kc_libConnected,  \* the kafkajs consumer holds a session
  kc_libRunning,    \* the kafkajs runner is fetching messages
  kc_offset,        \* offset of the next message the runner delivers
  kc_callbacks,     \* offsets whose eachMessage promise is pending
  kc_handlers,      \* offsets whose handler invocation is in flight
  kc_invoked,       \* offsets the handler was invoked with, in order
  kc_clock,         \* the wall clock new Date() reads
  kc_log,           \* what the latest step logged
  kc_last           \* the latest step and its outcome

kc_vars ==
  <<kc_isRunning, kc_stats, kc_pc, kc_libConnected, kc_libRunning, kc_offset,
    kc_callbacks, kc_handlers, kc_invoked, kc_clock, kc_log, kc_last>>

\* the errors an underlying client call fails with
Errors == {"ECONNREFUSED", "ETIMEDOUT"}
Outcomes == {"ok"} \cup Errors

\* deliveries a run may see, retried ones included
MaxDeliveries == MaxMsgs + 2

KcLast ==
  [op |-> "new", underlying |-> "-", status |-> "-", error |-> "-",
   offset |-> 0, thrown |-> FALSE, libCalled |-> FALSE]

\* constructor, lines 88-97
KcInit ==
  /\ kc_isRunning = FALSE
  /\ kc_stats = [processedCount |-> 0, errorCount |-> 0,
                 lastProcessedAt |-> <<>>, isRunning |-> FALSE]
  /\ kc_pc = [connect |-> "idle", subscribe |-> "idle", disconnect |-> "idle"]
  /\ kc_libConnected = FALSE
  /\ kc_libRunning = FALSE
  /\ kc_offset = 1
  /\ kc_callbacks = {}
  /\ kc_handlers = {}
  /\ kc_invoked = <<>>
  /\ kc_clock = 1
  /\ kc_log = <<>>
  /\ kc_last = KcLast

\* a settled promise: the status and, when rejected, the error
Resolved == [status |-> "resolved", error |-> "-"]
Rejected(e) == [status |-> "rejected", error |-> e]

\* (a catch block that logs and does not rethrow, as disconnect() does)
KcConnectFailed_Swallow(e) == Resolved
\* connect(), lines 177-183: the catch block logs and rethrows the error
KcConnectFailed(e) == Rejected(e)

\* (a catch block that rethrows, as connect() does)
KcDisconnectFailed_Rethrow(e) == Rejected(e)
\* disconnect(), lines 209-215: the catch block logs and does not rethrow
KcDisconnectFailed(e) == Resolved

\* (the guard of lines 190-195 left out)
KcNotRunning_Never == FALSE
\* disconnect(), line 190: if (!this.isRunning)
KcNotRunning == ~kc_isRunning

\* (the handler called without await)
HandlerAwaited_Not == FALSE
\* eachMessage, line 247: await handler(payload)
HandlerAwaited == TRUE

\* (a catch block that rethrows)
CallbackFailed_Rethrow == "rejected"
\* eachMessage, lines 250-262: the catch block counts, logs, does not rethrow
CallbackFailed == "resolved"

\* connect() up to its await, lines 165-172
KcConnect ==
  /\ kc_pc.connect = "idle"
  /\ kc_pc' = [kc_pc EXCEPT !.connect = "await"]
  /\ kc_log' = <<"info: Connecting to Kafka...">>
  /\ kc_last' = [KcLast EXCEPT !.op = "connect", !.libCalled = TRUE]
  /\ UNCHANGED <<kc_isRunning, kc_stats, kc_libConnected, kc_libRunning,
                 kc_offset, kc_callbacks, kc_handlers, kc_invoked, kc_clock>>

\* connect() after await this.consumer.connect(), lines 172-183
KcConnectDone(outcome) ==
  /\ kc_pc.connect = "await"
  /\ kc_pc' = [kc_pc EXCEPT !.connect = "idle"]
  /\ IF outcome = "ok"
     THEN /\ kc_libConnected' = TRUE
          /\ kc_log' = <<"info: Connected to Kafka successfully">>
          /\ kc_last' = [KcLast EXCEPT !.op = "connected", !.underlying = "ok",
                                       !.status = "resolved"]
     ELSE /\ kc_libConnected' = kc_libConnected
          /\ kc_log' = <<"error: Failed to connect to Kafka">>
          /\ kc_last' = [KcLast EXCEPT !.op = "connected",
                              !.underlying = outcome,
                              !.status = KcConnectFailed(outcome).status,
                              !.error = KcConnectFailed(outcome).error]
  /\ UNCHANGED <<kc_isRunning, kc_stats, kc_libRunning, kc_offset,
                 kc_callbacks, kc_handlers, kc_invoked, kc_clock>>

\* subscribe() up to await this.consumer.subscribe(...), lines 225-235
KcSubscribe ==
  /\ kc_pc.subscribe = "idle"
  /\ kc_pc' = [kc_pc EXCEPT !.subscribe = "topic"]
  /\ kc_log' = <<>>
  /\ kc_last' = [KcLast EXCEPT !.op = "subscribe", !.libCalled = TRUE]
  /\ UNCHANGED <<kc_isRunning, kc_stats, kc_libConnected, kc_libRunning,
                 kc_offset, kc_callbacks, kc_handlers, kc_invoked, kc_clock>>

\* subscribe() from the settled consumer.subscribe() to await
\* this.consumer.run(...), lines 232-244, or to the catch block, 273-280
KcSubscribeTopicDone(outcome) ==
  /\ kc_pc.subscribe = "topic"
  /\ IF outcome = "ok"
     THEN /\ kc_pc' = [kc_pc EXCEPT !.subscribe = "run"]
          /\ kc_log' = <<"info: Subscribed to topic">>
          /\ kc_last' = [KcLast EXCEPT !.op = "subscribing", !.underlying = "ok"]
     ELSE /\ kc_pc' = [kc_pc EXCEPT !.subscribe = "idle"]
          /\ kc_log' = <<"error: Failed to subscribe to topic">>
          /\ kc_last' = [KcLast EXCEPT !.op = "subscribed",
                              !.underlying = outcome, !.status = "rejected",
                              !.error = outcome]
  /\ UNCHANGED <<kc_isRunning, kc_stats, kc_libConnected, kc_libRunning,
                 kc_offset, kc_callbacks, kc_handlers, kc_invoked, kc_clock>>

\* subscribe() after await this.consumer.run(...), lines 264-280
KcSubscribeRunDone(outcome) ==
  /\ kc_pc.subscribe = "run"
  /\ kc_pc' = [kc_pc EXCEPT !.subscribe = "idle"]
  /\ IF outcome = "ok"
     THEN /\ kc_libRunning' = TRUE
          /\ kc_isRunning' = TRUE
          /\ kc_stats' = [kc_stats EXCEPT !.isRunning = TRUE]
          /\ kc_log' = <<"info: Consumer started successfully">>
          /\ kc_last' = [KcLast EXCEPT !.op = "subscribed", !.underlying = "ok",
                                       !.status = "resolved"]
     ELSE /\ UNCHANGED <<kc_libRunning, kc_isRunning, kc_stats>>
          /\ kc_log' = <<"error: Failed to subscribe to topic">>
          /\ kc_last' = [KcLast EXCEPT !.op = "subscribed",
                              !.underlying = outcome, !.status = "rejected",
                              !.error = outcome]
  /\ UNCHANGED <<kc_libConnected, kc_offset, kc_callbacks, kc_handlers,
                 kc_invoked, kc_clock>>

\* disconnect() up to its await, lines 189-202
KcDisconnect ==
  /\ kc_pc.disconnect = "idle"
  /\ IF KcNotRunning
     THEN /\ kc_pc' = kc_pc
          /\ kc_log' = <<"info: Consumer not running, nothing to disconnect">>
          /\ kc_last' = [KcLast EXCEPT !.op = "disconnect", !.status = "resolved"]
     ELSE /\ kc_pc' = [kc_pc EXCEPT !.disconnect = "await"]
          /\ kc_log' = <<"info: Disconnecting from Kafka...">>
          /\ kc_last' = [KcLast EXCEPT !.op = "disconnect", !.libCalled = TRUE]
  /\ UNCHANGED <<kc_isRunning, kc_stats, kc_libConnected, kc_libRunning,
                 kc_offset, kc_callbacks, kc_handlers, kc_invoked, kc_clock>>

\* disconnect() after await this.consumer.disconnect(), lines 202-215
KcDisconnectDone(outcome) ==
  /\ kc_pc.disconnect = "await"
  /\ kc_pc' = [kc_pc EXCEPT !.disconnect = "idle"]
  /\ IF outcome = "ok"
     THEN /\ kc_libConnected' = FALSE
          /\ kc_libRunning' = FALSE
          /\ kc_isRunning' = FALSE
          /\ kc_stats' = [kc_stats EXCEPT !.isRunning = FALSE]
          /\ kc_log' = <<"info: Disconnected from Kafka successfully">>
     ELSE /\ UNCHANGED <<kc_libConnected, kc_libRunning, kc_isRunning, kc_stats>>
          /\ kc_log' = <<"error: Error disconnecting from Kafka">>
  /\ LET settled == IF outcome = "ok" THEN Resolved
                     ELSE KcDisconnectFailed(outcome)
     IN kc_last' = [KcLast EXCEPT !.op = "disconnected",
                                  !.underlying = outcome,
                                  !.status = settled.status,
                                  !.error = settled.error]
  /\ UNCHANGED <<kc_offset, kc_callbacks, kc_handlers, kc_invoked, kc_clock>>

\* (counters that start over after a failed message)
KcCount_Reset(stats, thrown, now) ==
  IF thrown
  THEN [stats EXCEPT !.errorCount = @ + 1, !.processedCount = 0,
                     !.lastProcessedAt = <<now>>]
  ELSE [stats EXCEPT !.processedCount = @ + 1, !.lastProcessedAt = <<now>>]

\* the counters after a handler invocation that threw or returned,
\* lines 248-252
KcCount(stats, thrown, now) ==
  IF thrown
  THEN [stats EXCEPT !.errorCount = @ + 1, !.lastProcessedAt = <<now>>]
  ELSE [stats EXCEPT !.processedCount = @ + 1, !.lastProcessedAt = <<now>>]

\* the runner calls eachMessage with the next message, which invokes the
\* handler, lines 245-247
KcDeliver ==
  /\ kc_libRunning
  /\ kc_callbacks = {}
  /\ kc_offset <= MaxMsgs
  /\ Len(kc_invoked) < MaxDeliveries
  /\ kc_handlers' = kc_handlers \cup {kc_offset}
  /\ kc_invoked' = Append(kc_invoked, kc_offset)
  /\ kc_clock' = kc_clock + 1
  /\ kc_log' = <<>>
  /\ kc_last' = [KcLast EXCEPT !.op = "deliver", !.offset = kc_offset]
  /\ IF HandlerAwaited
     THEN /\ kc_callbacks' = kc_callbacks \cup {kc_offset}
          /\ UNCHANGED <<kc_stats, kc_offset>>
     ELSE /\ kc_callbacks' = kc_callbacks
          /\ kc_stats' = KcCount(kc_stats, FALSE, kc_clock)
          /\ kc_offset' = kc_offset + 1
  /\ UNCHANGED <<kc_isRunning, kc_pc, kc_libConnected, kc_libRunning>>

\* the handler invocation for offset o settles; eachMessage resumes, counts
\* and settles its own promise, and the runner moves on, lines 247-263
KcHandlerDone(o, thrown) ==
  /\ o \in kc_handlers
  /\ kc_handlers' = kc_handlers \ {o}
  /\ kc_clock' = kc_clock + 1
  /\ IF o \in kc_callbacks
     THEN LET status == IF thrown THEN CallbackFailed ELSE "resolved"
          IN /\ kc_callbacks' = kc_callbacks \ {o}
             /\ kc_stats' = KcCount(kc_stats, thrown, kc_clock)
             /\ kc_offset' = IF status = "resolved" THEN o + 1 ELSE o
             /\ kc_log' = IF thrown THEN <<"error: Error processing message">>
                          ELSE <<>>
             /\ kc_last' = [KcLast EXCEPT !.op = "handled", !.offset = o,
                                          !.thrown = thrown, !.status = status]
     ELSE /\ UNCHANGED <<kc_callbacks, kc_stats, kc_offset>>
          /\ kc_log' = <<>>
          /\ kc_last' = [KcLast EXCEPT !.op = "handled", !.offset = o,
                                       !.thrown = thrown, !.status = "detached"]
  /\ UNCHANGED <<kc_isRunning, kc_pc, kc_libConnected, kc_libRunning,
                 kc_invoked>>

\* =========================================================================
\* PostgresClient   (src/unnamed/part_012:92-258)
\* The pg Pool is the library side: it settles query() and end(), and a pool
\* that has been ended serves no further query.
\* =========================================================================
VARIABLES
  pg_connected,   \* this.connected
  pg_poolEnded,   \* pool.end() has completed on this.pool
  pg_pc,          \* where connect(), disconnect(), query(), queryOne() and
                  \* healthCheck() are suspended
  pg_log,         \* what the latest step logged
  pg_last         \* the latest step and its outcome

pg_vars == <<pg_connected, pg_poolEnded, pg_pc, pg_log, pg_last>>

\* result.rows of a query the pool served
RowSets == {<<>>, <<"row1">>, <<"row1", "row2">>}

PgLast ==
  [op |-> "new", underlying |-> "-", status |-> "-", error |-> "-",
   rows |-> <<>>, one |-> <<>>, healthy |-> <<>>]

\* constructor, lines 98-139: private connected: boolean = false (line 96)
PgInit ==
  /\ pg_connected = FALSE
  /\ pg_poolEnded = FALSE
  /\ pg_pc = [connect |-> "idle", disconnect |-> "idle", query |-> "idle",
              queryOne |-> "idle", healthCheck |-> "idle"]
  /\ pg_log = <<>>
  /\ pg_last = PgLast

\* what pool.query() can settle with: an ended pool only fails
PoolOutcomes == IF pg_poolEnded THEN Errors ELSE Outcomes

\* connect(), lines 156-162: the catch block logs and rethrows the error
PgConnectFailed(e) == Rejected(e)

\* query(), lines 200-207: the catch block logs and rethrows the error
PgQueryFailed(e) == Rejected(e)

\* connect() up to await this.pool.query('SELECT 1'), lines 144-146
PgConnect ==
  /\ pg_pc.connect = "idle"
  /\ pg_pc' = [pg_pc EXCEPT !.connect = "await"]
  /\ pg_log' = <<>>
  /\ pg_last' = [PgLast EXCEPT !.op = "connect"]
  /\ UNCHANGED <<pg_connected, pg_poolEnded>>

\* connect() after the await, lines 146-162
PgConnectDone(outcome) ==
  /\ pg_pc.connect = "await"
  /\ outcome \in PoolOutcomes
  /\ pg_pc' = [pg_pc EXCEPT !.connect = "idle"]
  /\ IF outcome = "ok"
     THEN /\ pg_connected' = TRUE
          /\ pg_log' = <<"info: PostgreSQL connection pool initialized">>
          /\ pg_last' = [PgLast EXCEPT !.op = "connected", !.underlying = "ok",
                                       !.status = "resolved"]
     ELSE /\ pg_connected' = pg_connected
          /\ pg_log' = <<"error: Failed to connect to PostgreSQL">>
          /\ pg_last' = [PgLast EXCEPT !.op = "connected",
                              !.underlying = outcome,
                              !.status = PgConnectFailed(outcome).status,
                              !.error = PgConnectFailed(outcome).error]
  /\ UNCHANGED pg_poolEnded

\* disconnect() up to await this.pool.end(), lines 168-169
PgDisconnect ==
  /\ pg_pc.disconnect = "idle"
  /\ pg_pc' = [pg_pc EXCEPT !.disconnect = "await"]
  /\ pg_log' = <<>>
  /\ pg_last' = [PgLast EXCEPT !.op = "disconnect"]
  /\ UNCHANGED <<pg_connected, pg_poolEnded>>

\* disconnect() after the await, lines 169-173: there is no try/catch, so a
\* failed pool.end() rejects and leaves connected as it was
PgDisconnectDone(outcome) ==
  /\ pg_pc.disconnect = "await"
  /\ pg_pc' = [pg_pc EXCEPT !.disconnect = "idle"]
  /\ IF outcome = "ok"
     THEN /\ pg_connected' = FALSE
          /\ pg_poolEnded' = TRUE
          /\ pg_log' = <<"info: PostgreSQL connection pool closed">>
          /\ pg_last' = [PgLast EXCEPT !.op = "disconnected",
                              !.underlying = "ok", !.status = "resolved"]
     ELSE /\ UNCHANGED <<pg_connected, pg_poolEnded>>
          /\ pg_log' = <<>>
          /\ pg_last' = [PgLast EXCEPT !.op = "disconnected",
                              !.underlying = outcome,
                              !.status = "rejected", !.error = outcome]

\* query() up to await this.pool.query(sql, params), lines 186-189
PgQuery ==
  /\ pg_pc.query = "idle"
  /\ pg_pc' = [pg_pc EXCEPT !.query = "await"]
  /\ pg_log' = <<>>
  /\ pg_last' = [PgLast EXCEPT !.op = "query"]
  /\ UNCHANGED <<pg_connected, pg_poolEnded>>

\* query() after the await, lines 189-207
PgQueryDone(outcome, rows) ==
  /\ pg_pc.query = "await"
  /\ outcome \in PoolOutcomes
  /\ pg_pc' = [pg_pc EXCEPT !.query = "idle"]
  /\ IF outcome = "ok"
     THEN /\ pg_log' = <<"debug: Executed query">>
          /\ pg_last' = [PgLast EXCEPT !.op = "queried", !.underlying = "ok",
                                       !.status = "resolved", !.rows = rows]
     ELSE /\ pg_log' = <<"error: Database query error">>
          /\ pg_last' = [PgLast EXCEPT !.op = "queried",
                              !.underlying = outcome,
                              !.status = PgQueryFailed(outcome).status,
                              !.error = PgQueryFailed(outcome).error]
  /\ UNCHANGED <<pg_connected, pg_poolEnded>>

\* (rows[0] returned as it is)
FirstRowOrNull_Bare(rows) == IF Len(rows) > 0 THEN rows[1] ELSE Undefined
\* queryOne(), line 215: rows[0] || null; rows[0] of an empty array is
\* undefined, and a row is an object
FirstRowOrNull(rows) ==
  OrElse(IF Len(rows) > 0 THEN rows[1] ELSE Undefined, Null)

\* queryOne() up to the await inside this.query(sql, params), lines 213-214
\* and 186-189
PgQueryOne ==
  /\ pg_pc.queryOne = "idle"
  /\ pg_pc' = [pg_pc EXCEPT !.queryOne = "await"]
  /\ pg_log' = <<>>
  /\ pg_last' = [PgLast EXCEPT !.op = "queryOne"]
  /\ UNCHANGED <<pg_connected, pg_poolEnded>>

\* queryOne() after the await, lines 189-207 and 214-215: a query() that
\* rejected rejects queryOne()
PgQueryOneDone(outcome, rows) ==
  /\ pg_pc.queryOne = "await"
  /\ outcome \in PoolOutcomes
  /\ pg_pc' = [pg_pc EXCEPT !.queryOne = "idle"]
  /\ IF outcome = "ok"
     THEN /\ pg_log' = <<"debug: Executed query">>
          /\ pg_last' = [PgLast EXCEPT !.op = "queriedOne", !.underlying = "ok",
                                       !.status = "resolved", !.rows = rows,
                                       !.one = <<FirstRowOrNull(rows)>>]
     ELSE /\ pg_log' = <<"error: Database query error">>
          /\ pg_last' = [PgLast EXCEPT !.op = "queriedOne",
                              !.underlying = outcome,
                              !.status = PgQueryFailed(outcome).status,
                              !.error = PgQueryFailed(outcome).error]
  /\ UNCHANGED <<pg_connected, pg_poolEnded>>

\* (a catch block that rethrows)
PgHealthCheckFailed_Rethrow(e) == Rejected(e)
\* healthCheck(), lines 225-231: the catch block logs and returns false
PgHealthCheckFailed(e) == Resolved

\* healthCheck() up to await this.pool.query('SELECT 1'), lines 221-223
PgHealthCheck ==
  /\ pg_pc.healthCheck = "idle"
  /\ pg_pc' = [pg_pc EXCEPT !.healthCheck = "await"]
  /\ pg_log' = <<>>
  /\ pg_last' = [PgLast EXCEPT !.op = "healthCheck"]
  /\ UNCHANGED <<pg_connected, pg_poolEnded>>

\* healthCheck() after the await, lines 223-231
PgHealthCheckDone(outcome) ==
  /\ pg_pc.healthCheck = "await"
  /\ outcome \in PoolOutcomes
  /\ pg_pc' = [pg_pc EXCEPT !.healthCheck = "idle"]
  /\ IF outcome = "ok"
     THEN /\ pg_log' = <<>>
          /\ pg_last' = [PgLast EXCEPT !.op = "healthChecked",
                              !.underlying = "ok", !.status = "resolved",
                              !.healthy = <<TRUE>>]
     ELSE /\ pg_log' = <<"error: Database health check failed">>
          /\ pg_last' = [PgLast EXCEPT !.op = "healthChecked",
                              !.underlying = outcome,
                              !.status = PgHealthCheckFailed(outcome).status,
                              !.error = PgHealthCheckFailed(outcome).error,
                              !.healthy =
                                IF PgHealthCheckFailed(outcome).status = "resolved"
                                THEN <<FALSE>> ELSE <<>>]
  /\ UNCHANGED <<pg_connected, pg_poolEnded>>

\* =========================================================================
\* JSON.stringify and JSON.parse, as RedisCache.set and get use them
\* (src/NEXT-STEPS.md:372, 397). A value is a record of one shape: t is its
\* type, b, n and s the boolean, integer or string it holds, elems the
\* elements of an array or the member values of an object, keys the member
\* names of an object.
\* =========================================================================
JValue(t, b, n, s, keys, elems) ==
  [t |-> t, b |-> b, n |-> n, s |-> s, keys |-> keys, elems |-> elems]
JNull == JValue("null", FALSE, 0, <<>>, <<>>, <<>>)
JBool(b) == JValue("boolean", b, 0, <<>>, <<>>, <<>>)
JNum(n) == JValue("number", FALSE, n, <<>>, <<>>, <<>>)
JStr(s) == JValue("string", FALSE, 0, s, <<>>, <<>>)
JArr(elems) == JValue("array", FALSE, 0, <<>>, <<>>, elems)
JObj(keys, elems) == JValue("object", FALSE, 0, <<>>, keys, elems)
\* values JSON does not represent: undefined, NaN, an object that holds itself
JUndefined == JValue("undefined", FALSE, 0, <<>>, <<>>, <<>>)
JNaN == JValue("NaN", FALSE, 0, <<>>, <<>>, <<>>)
JCircular == JValue("circular", FALSE, 0, <<>>, <<>>, <<>>)

\* the decimal digits of a natural number
RECURSIVE NatDigits(_)
NatDigits(n) ==
  LET d == CHOOSE c \in Digits : DigitVal(c) = n % 10
  IN IF n < 10 THEN <<d>> ELSE NatDigits(n \div 10) \o <<d>>

\* a string literal: quotes around the characters, " and \ escaped
RECURSIVE Escaped(_)
Escaped(s) ==
  IF s = <<>> THEN <<>>
  ELSE (IF Head(s) \in {"\"", "\\"} THEN <<"\\", Head(s)>> ELSE <<Head(s)>>)
       \o Escaped(Tail(s))
Quoted(s) == <<"\"">> \o Escaped(s) \o <<"\"">>

\* the text of a value; NaN is written as null
RECURSIVE JText(_)
JText(v) ==
  LET RECURSIVE Items(_)
      Items(i) ==
        IF i > Len(v.elems) THEN <<>>
        ELSE (IF i > 1 THEN <<",">> ELSE <<>>)
             \o (IF v.t = "object" THEN Quoted(v.keys[i]) \o <<":">> ELSE <<>>)
             \o JText(v.elems[i]) \o Items(i + 1)
  IN CASE v.t \in {"null", "NaN"} -> <<"n", "u", "l", "l">>
       [] v.t = "boolean" ->
            IF v.b THEN <<"t", "r", "u", "e">> ELSE <<"f", "a", "l", "s", "e">>
       [] v.t = "number" ->
            IF v.n < 0 THEN <<"-">> \o NatDigits(0 - v.n) ELSE NatDigits(v.n)
       [] v.t = "string" -> Quoted(v.s)
       [] v.t = "array" -> <<"[">> \o Items(1) \o <<"]">>
       [] v.t = "object" -> <<"{">> \o Items(1) \o <<"}">>

\* JSON.stringify(value): throws on a circular structure, returns undefined
\* (no text) for undefined
JSONstringify(value) ==
  CASE value.t = "circular" -> [status |-> "threw", text |-> <<>>]
    [] value.t = "undefined" -> [status |-> "undefined", text |-> <<>>]
    [] OTHER -> [status |-> "text", text |-> JText(value)]

\* ---- JSON.parse: each parser takes a text and returns whether it matched,
\* the value and the rest of the text
NoParse == [ok |-> FALSE, v |-> JNull, rest |-> <<>>]
Parse(v, rest) == [ok |-> TRUE, v |-> v, rest |-> rest]

\* text starts with the characters of word
StartsWith(text, word) ==
  Len(text) >= Len(word) /\ SubSeq(text, 1, Len(word)) = word

\* the characters of a string literal after its opening quote, unescaped
RECURSIVE ParseChars(_, _)
ParseChars(text, acc) ==
  IF text = <<>> THEN NoParse
  ELSE IF Head(text) = "\"" THEN Parse(JStr(acc), Tail(text))
  ELSE IF Head(text) = "\\"
  THEN IF Len(text) >= 2 /\ text[2] \in {"\"", "\\"}
       THEN ParseChars(Drop(text, 2), Append(acc, text[2]))
       ELSE NoParse
  ELSE ParseChars(Tail(text), Append(acc, Head(text)))

\* -? digits, with no leading zero
ParseNumber(text) ==
  LET neg == text # <<>> /\ Head(text) = "-"
      ds == Run(IF neg THEN Tail(text) ELSE text, Digits)
      n == DigitsValue(ds, 0)
  IN IF ds = <<>> \/ (Len(ds) > 1 /\ Head(ds) = "0") THEN NoParse
     ELSE Parse(JNum(IF neg THEN 0 - n ELSE n),
                Drop(text, Len(ds) + (IF neg THEN 1 ELSE 0)))

RECURSIVE ParseValue(_)
ParseValue(text) ==
  LET \* the elements of an array after "[" or the members of an object
      \* after "{", up to the closing bracket
      RECURSIVE ParseItems(_, _, _, _)
      ParseItems(rest, object, keys, elems) ==
        LET close == IF object THEN "}" ELSE "]"
            first == elems = <<>>
            r1 == IF ~first /\ rest # <<>> /\ Head(rest) = ","
                  THEN Tail(rest) ELSE rest
            key == IF object /\ r1 # <<>> /\ Head(r1) = "\""
                   THEN ParseChars(Tail(r1), <<>>) ELSE NoParse
            r2 == IF object
                  THEN (IF key.ok /\ key.rest # <<>> /\ Head(key.rest) = ":"
                        THEN Tail(key.rest) ELSE <<>>)
                  ELSE r1
            item == ParseValue(r2)
        IN IF rest = <<>> THEN NoParse
           ELSE IF Head(rest) = close
           THEN Parse(IF object THEN JObj(keys, elems) ELSE JArr(elems),
                      Tail(rest))
           ELSE IF ~first /\ Head(rest) # "," THEN NoParse
           ELSE IF ~item.ok THEN NoParse
           ELSE ParseItems(item.rest, object,
                           IF object THEN Append(keys, key.v.s) ELSE keys,
                           Append(elems, item.v))
  IN IF text = <<>> THEN NoParse
     ELSE IF StartsWith(text, <<"n", "u", "l", "l">>)
     THEN Parse(JNull, Drop(text, 4))
     ELSE IF StartsWith(text, <<"t", "r", "u", "e">>)
     THEN Parse(JBool(TRUE), Drop(text, 4))
     ELSE IF StartsWith(text, <<"f", "a", "l", "s", "e">>)
     THEN Parse(JBool(FALSE), Drop(text, 5))
     ELSE IF Head(text) = "\"" THEN ParseChars(Tail(text), <<>>)
     ELSE IF Head(text) = "[" THEN ParseItems(Tail(text), FALSE, <<>>, <<>>)
     ELSE IF Head(text) = "{" THEN ParseItems(Tail(text), TRUE, <<>>, <<>>)
     ELSE ParseNumber(text)

\* (the stored text returned as it is, without JSON.parse)
JSONparse_Raw(text) == [status |-> "value", value |-> JStr(text)]

\* JSON.parse(text): the value, or a SyntaxError when the text is no value
\* or more than one
JSONparse(text) ==
  LET p == ParseValue(text)
  IN IF p.ok /\ p.rest = <<>>
     THEN [status |-> "value", value |-> p.v]
     ELSE [status |-> "threw", value |-> JUndefined]

\* =========================================================================
\* RedisCache   (src/NEXT-STEPS.md:257-495)
\* The node-redis client is the library side: it settles connect() and
\* quit() and emits 'error', 'connect' and 'disconnect' to the listeners
\* connect() registered. Every connect() call creates a client of its own.
\* =========================================================================
VARIABLES
  rc_client,      \* this.client: 0 is null, otherwise the client's number
  rc_connected,   \* this.connected
  rc_clients,     \* the clients created so far, each with its listeners
  rc_pending,     \* the clients whose connect() a connect() call awaits
  rc_quitting,    \* a disconnect() call awaits quit()
  rc_early,       \* connect() calls that were awaiting when the latest
                  \* 'error' or 'disconnect' event since a success fired
  rc_log,         \* what the latest step logged
  rc_last         \* the latest step and its outcome

rc_vars ==
  <<rc_client, rc_connected, rc_clients, rc_pending, rc_quitting, rc_early, rc_log,
    rc_last>>

\* the events a client emits to the listeners of lines 286-304
ClientEvents == {"error", "connect", "disconnect"}

RcLast ==
  [op |-> "new", underlying |-> "-", status |-> "-", error |-> "-",
   client |-> 0]

\* field initialisers, lines 258-259
RcInit ==
  /\ rc_client = 0
  /\ rc_connected = FALSE
  /\ rc_clients = {}
  /\ rc_pending = {}
  /\ rc_quitting = FALSE
  /\ rc_early = {}
  /\ rc_log = <<>>
  /\ rc_last = RcLast

\* connect(), lines 315-323: the catch block logs, drops the client, clears
\* connected and rethrows the error
RcConnectFailed(e) == Rejected(e)

\* connect() up to await this.client.connect(), lines 282-306
RcConnect ==
  /\ Cardinality(rc_clients) < MaxClients
  /\ rc_client' = Cardinality(rc_clients) + 1
  /\ rc_clients' = rc_clients \cup {rc_client'}
  /\ rc_pending' = rc_pending \cup {rc_client'}
  /\ rc_log' = <<>>
  /\ rc_last' = [RcLast EXCEPT !.op = "connect", !.client = rc_client']
  /\ UNCHANGED <<rc_connected, rc_quitting, rc_early>>

\* connect() after the await, lines 306-323
RcConnectDone(c, outcome) ==
  /\ c \in rc_pending
  /\ rc_pending' = rc_pending \ {c}
  /\ rc_early' = IF outcome = "ok" THEN {} ELSE rc_early \ {c}
  /\ IF outcome = "ok"
     THEN /\ rc_connected' = TRUE
          /\ rc_client' = rc_client
          /\ rc_log' = <<"info: Redis cache connected">>
          /\ rc_last' = [RcLast EXCEPT !.op = "connected", !.client = c,
                              !.underlying = "ok", !.status = "resolved"]
     ELSE /\ rc_connected' = FALSE
          /\ rc_client' = 0
          /\ rc_log' = <<"error: Failed to connect to Redis">>
          /\ rc_last' = [RcLast EXCEPT !.op = "connected", !.client = c,
                              !.underlying = outcome,
                              !.status = RcConnectFailed(outcome).status,
                              !.error = RcConnectFailed(outcome).error]
  /\ UNCHANGED <<rc_clients, rc_quitting>>

\* (a 'connect' listener that sets the flag)
FlagAfterEvent_Reconnect(ev, connected) == ev = "connect"
\* this.connected after a listener ran, lines 286-304: the 'error' and
\* 'disconnect' listeners clear it, the 'connect' listener only logs
FlagAfterEvent(ev, connected) == IF ev = "connect" THEN connected ELSE FALSE

\* a listener runs, lines 286-304
RcEvent(c, ev) ==
  /\ c \in rc_clients
  /\ rc_connected' = FlagAfterEvent(ev, rc_connected)
  /\ rc_early' = IF ev = "connect" THEN rc_early ELSE rc_pending
  /\ rc_log' = CASE ev = "error" -> <<"error: Redis client error">>
                 [] ev = "connect" -> <<"debug: Redis client connected">>
                 [] ev = "disconnect" -> <<"warn: Redis client disconnected">>
  /\ rc_last' = [RcLast EXCEPT !.op = "event", !.client = c, !.underlying = ev]
  /\ UNCHANGED <<rc_client, rc_clients, rc_pending, rc_quitting>>

\* disconnect() up to await this.client.quit(), lines 329-331
RcDisconnect ==
  /\ ~rc_quitting
  /\ IF rc_client = 0
     THEN /\ rc_quitting' = FALSE
          /\ rc_last' = [RcLast EXCEPT !.op = "disconnect",
                                       !.status = "resolved"]
     ELSE /\ rc_quitting' = TRUE
          /\ rc_last' = [RcLast EXCEPT !.op = "disconnect",
                                       !.client = rc_client]
  /\ rc_log' = <<>>
  /\ UNCHANGED <<rc_client, rc_connected, rc_clients, rc_pending, rc_early>>

\* disconnect() after the await, lines 331-342: the catch block logs and
\* does not rethrow
RcDisconnectDone(outcome) ==
  /\ rc_quitting
  /\ rc_quitting' = FALSE
  /\ IF outcome = "ok"
     THEN /\ rc_connected' = FALSE
          /\ rc_log' = <<"info: Redis cache disconnected">>
     ELSE /\ rc_connected' = rc_connected
          /\ rc_log' = <<"error: Error disconnecting from Redis">>
  /\ rc_last' = [RcLast EXCEPT !.op = "disconnected", !.underlying = outcome,
                               !.status = "resolved"]
  /\ UNCHANGED <<rc_client, rc_clients, rc_pending, rc_early>>

\* =========================================================================
\* RedisCache: get, set, delete, exists   (src/NEXT-STEPS.md:349-467)
\* The Redis server is the library side: it keeps one text per store key
\* until the entry's time to live runs out, and may fail any command. A store
\* command settles before the next data operation is called.
\* =========================================================================
VARIABLES
  rs_store,       \* the server's entries: store key -> text
  rs_cmd,         \* the store command a data operation awaits, if any
  rs_written,     \* per key, the value of the set() that last took effect,
                  \* while no delete or expiry has removed it
  rs_deleted,     \* per key, a delete() removed it and no set() was called since
  rs_delResolved, \* per key, a delete() called on a connected cache has
                  \* resolved and no set() was called since
  rs_last         \* the latest data operation step and its outcome

rs_vars ==
  <<rs_store, rs_cmd, rs_written, rs_deleted, rs_delResolved, rs_last>>

\* the literal defaults of the constructor, lines 271-272
DefaultTTL == 3600
DefaultKeyPrefix == <<"r", "r", ":">>

\* the cache keys and values callers use
CacheKeys == {<<"k">>}
JsonValues ==
  {JNull, JNum(42), JStr(<<"a", "\"">>),
   JObj(<< <<"id">>, <<"tags">> >>, <<JNum(7), JArr(<<JBool(TRUE), JStr(<<>>)>>)>>)}
CacheValues == JsonValues \cup {JUndefined, JNaN, JCircular}
\* the ttl argument of set(): absent, or a number of seconds
Ttls == {<<>>, <<60>>}
\* a text some other writer left in the store
ForeignText == <<"o", "o", "p", "s">>

\* getKey(key), lines 349-351, with the default prefix
getKey(key) == DefaultKeyPrefix \o key

RsLast ==
  [op |-> "new", key |-> <<>>, path |-> "-", caught |-> "-", status |-> "-",
   error |-> "-", value |-> JNull, found |-> FALSE, ttl |-> 0,
   stored |-> <<>>, log |-> <<>>]

\* before the first operation the store is empty or holds a foreign entry
RsInit ==
  /\ rs_store \in {<<>>} \cup {[fk \in {getKey(k)} |-> ForeignText] : k \in CacheKeys}
  /\ rs_cmd = <<>>
  /\ rs_written = [k \in CacheKeys |-> <<>>]
  /\ rs_deleted = [k \in CacheKeys |-> FALSE]
  /\ rs_delResolved = [k \in CacheKeys |-> FALSE]
  /\ rs_last = RsLast

\* (a guard that tests the client only)
NotConnected_ClientOnly == rc_client = 0
\* the guard of every data operation, lines 360, 391, 423, 451:
\* if (!this.client || !this.connected)
NotConnected == rc_client = 0 \/ ~rc_connected

\* (a catch block that rethrows)
RsGetFailed_Rethrow(e) == Rejected(e)
\* get(), lines 373-380: the catch block logs and returns null
RsGetFailed(e) == Resolved
\* set(), lines 407-414: the catch block logs
RsSetFailed(e) == Resolved
\* delete(), lines 435-441: the catch block logs
RsDeleteFailed(e) == Resolved
\* exists(), lines 459-466: the catch block logs and returns false
RsExistsFailed(e) == Resolved

\* (a del command that removes nothing)
RsRemove_Keep(store, fk) == store

\* store without the entry of store key fk
RsRemove(store, fk) == [x \in DOMAIN store \ {fk} |-> store[x]]
\* store with text under store key fk
RsPut(store, fk, text) ==
  [x \in DOMAIN store \cup {fk} |-> IF x = fk THEN text ELSE store[x]]

\* a data operation that returned at its guard
RsSkipped(op, key) ==
  [RsLast EXCEPT !.op = op, !.key = key, !.path = "skipped",
                 !.status = "resolved"]
\* a data operation suspended at its store command
RsCalled(op, key) ==
  [RsLast EXCEPT !.op = op, !.key = key, !.path = "store", !.status = "pending"]
\* a data operation whose try block failed with e and settled as settled
RsCaught(op, key, e, settled, message) ==
  [RsLast EXCEPT !.op = op, !.key = key, !.path = "failed", !.caught = e,
                 !.status = settled.status, !.error = settled.error,
                 !.log = <<message>>]

\* the data operations leave the connection as it is; rc_last and rc_log
\* describe the latest step, which is then a data operation
RsKeep ==
  /\ UNCHANGED <<rc_client, rc_connected, rc_clients, rc_pending, rc_quitting,
                 rc_early>>
  /\ rc_log' = <<>>
  /\ rc_last' = [RcLast EXCEPT !.op = "data"]

\* get(key) up to await this.client.get(fullKey), lines 359-366
RsGet(key) ==
  /\ rs_cmd = <<>>
  /\ IF NotConnected
     THEN /\ rs_cmd' = rs_cmd
          /\ rs_last' = RsSkipped("get", key)
     ELSE /\ rs_cmd' = <<[op |-> "get", key |-> key, fullKey |-> getKey(key),
                          value |-> JNull, text |-> <<>>]>>
          /\ rs_last' = RsCalled("get", key)
  /\ UNCHANGED <<rs_store, rs_written, rs_deleted, rs_delResolved>>
  /\ RsKeep

\* get(key) after the await, lines 366-380
RsGetDone(outcome) ==
  /\ rs_cmd # <<>> /\ rs_cmd[1].op = "get"
  /\ rs_cmd' = <<>>
  /\ LET c == rs_cmd[1]
         hit == c.fullKey \in DOMAIN rs_store
         parsed == IF hit THEN JSONparse(rs_store[c.fullKey])
                   ELSE [status |-> "value", value |-> JNull]
     IN rs_last' =
          IF outcome # "ok"
          THEN RsCaught("got", c.key, outcome, RsGetFailed(outcome),
                        "error: Redis GET error")
          ELSE IF parsed.status = "threw"
          THEN RsCaught("got", c.key, "SyntaxError", RsGetFailed("SyntaxError"),
                        "error: Redis GET error")
          ELSE [RsLast EXCEPT !.op = "got", !.key = c.key, !.path = "ok",
                              !.status = "resolved", !.found = hit,
                              !.value = parsed.value]
  /\ UNCHANGED <<rs_store, rs_written, rs_deleted, rs_delResolved>>
  /\ RsKeep

\* set(key, value, ttl) up to await this.client.setEx(...), lines 390-400;
\* setEx given undefined instead of a text throws before it sends anything
RsSet(key, value, ttl) ==
  /\ rs_cmd = <<>>
  /\ LET serialized == JSONstringify(value)
         effectiveTTL == Coalesce(ttl, DefaultTTL)
     IN IF NotConnected
        THEN /\ rs_cmd' = rs_cmd
             /\ rs_last' = RsSkipped("set", key)
        ELSE IF serialized.status # "text"
        THEN /\ rs_cmd' = rs_cmd
             /\ rs_last' = RsCaught("set", key, "TypeError",
                                    RsSetFailed("TypeError"),
                                    "error: Redis SET error")
        ELSE /\ rs_cmd' = <<[op |-> "set", key |-> key,
                             fullKey |-> getKey(key), value |-> value,
                             text |-> serialized.text]>>
             /\ rs_last' = [RsCalled("set", key) EXCEPT !.ttl = effectiveTTL]
  /\ rs_deleted' = [rs_deleted EXCEPT ![key] = FALSE]
  /\ rs_delResolved' = [rs_delResolved EXCEPT ![key] = FALSE]
  /\ UNCHANGED <<rs_store, rs_written>>
  /\ RsKeep

\* set() after the await, lines 400-414
RsSetDone(outcome) ==
  /\ rs_cmd # <<>> /\ rs_cmd[1].op = "set"
  /\ rs_cmd' = <<>>
  /\ LET c == rs_cmd[1]
     IN IF outcome = "ok"
        THEN /\ rs_store' = RsPut(rs_store, c.fullKey, c.text)
             /\ rs_written' = [rs_written EXCEPT ![c.key] = <<c.value>>]
             /\ rs_last' = [RsLast EXCEPT !.op = "stored", !.key = c.key,
                                 !.path = "ok", !.status = "resolved",
                                 !.stored = c.fullKey,
                                 !.log = <<"debug: Cached value">>]
        ELSE /\ UNCHANGED <<rs_store, rs_written>>
             /\ rs_last' = RsCaught("stored", c.key, outcome,
                                    RsSetFailed(outcome),
                                    "error: Redis SET error")
  /\ UNCHANGED <<rs_deleted, rs_delResolved>>
  /\ RsKeep

\* delete(key) up to await this.client.del(fullKey), lines 422-429
RsDelete(key) ==
  /\ rs_cmd = <<>>
  /\ IF NotConnected
     THEN /\ rs_cmd' = rs_cmd
          /\ rs_last' = RsSkipped("delete", key)
     ELSE /\ rs_cmd' = <<[op |-> "delete", key |-> key,
                          fullKey |-> getKey(key), value |-> JNull,
                          text |-> <<>>]>>
          /\ rs_last' = RsCalled("delete", key)
  /\ UNCHANGED <<rs_store, rs_written, rs_deleted, rs_delResolved>>
  /\ RsKeep

\* delete() after the await, lines 429-441
RsDeleteDone(outcome) ==
  /\ rs_cmd # <<>> /\ rs_cmd[1].op = "delete"
  /\ rs_cmd' = <<>>
  /\ LET c == rs_cmd[1]
     IN /\ IF outcome = "ok"
           THEN /\ rs_store' = RsRemove(rs_store, c.fullKey)
                /\ rs_written' = [rs_written EXCEPT ![c.key] = <<>>]
                /\ rs_deleted' = [rs_deleted EXCEPT ![c.key] = TRUE]
                /\ rs_last' = [RsLast EXCEPT !.op = "deleted", !.key = c.key,
                                    !.path = "ok", !.status = "resolved",
                                    !.log = <<"debug: Deleted cache key">>]
           ELSE /\ UNCHANGED <<rs_store, rs_written, rs_deleted>>
                /\ rs_last' = RsCaught("deleted", c.key, outcome,
                                       RsDeleteFailed(outcome),
                                       "error: Redis DEL error")
        /\ rs_delResolved' =
             [rs_delResolved EXCEPT ![c.key] = rs_last'.status = "resolved"]
  /\ RsKeep

\* exists(key) up to await this.client.exists(fullKey), lines 450-457
RsExists(key) ==
  /\ rs_cmd = <<>>
  /\ IF NotConnected
     THEN /\ rs_cmd' = rs_cmd
          /\ rs_last' = RsSkipped("exists", key)
     ELSE /\ rs_cmd' = <<[op |-> "exists", key |-> key,
                          fullKey |-> getKey(key), value |-> JNull,
                          text |-> <<>>]>>
          /\ rs_last' = RsCalled("exists", key)
  /\ UNCHANGED <<rs_store, rs_written, rs_deleted, rs_delResolved>>
  /\ RsKeep

\* exists() after the await, lines 457-466: result === 1
RsExistsDone(outcome) ==
  /\ rs_cmd # <<>> /\ rs_cmd[1].op = "exists"
  /\ rs_cmd' = <<>>
  /\ LET c == rs_cmd[1]
         result == IF c.fullKey \in DOMAIN rs_store THEN 1 ELSE 0
     IN rs_last' =
          IF outcome = "ok"
          THEN [RsLast EXCEPT !.op = "checked", !.key = c.key, !.path = "ok",
                              !.status = "resolved", !.found = (result = 1)]
          ELSE RsCaught("checked", c.key, outcome, RsExistsFailed(outcome),
                        "error: Redis EXISTS error")
  /\ UNCHANGED <<rs_store, rs_written, rs_deleted, rs_delResolved>>
  /\ RsKeep

\* healthCheck(), lines 491-493: the catch block logs and returns false
RsHealthCheckFailed(e) == Resolved

\* healthCheck() up to await this.client.ping(), lines 479-485
RsHealthCheck ==
  /\ rs_cmd = <<>>
  /\ IF NotConnected
     THEN /\ rs_cmd' = rs_cmd
          /\ rs_last' = RsSkipped("healthCheck", <<>>)
     ELSE /\ rs_cmd' = <<[op |-> "ping", key |-> <<>>, fullKey |-> <<>>,
                          value |-> JNull, text |-> <<>>]>>
          /\ rs_last' = RsCalled("healthCheck", <<>>)
  /\ UNCHANGED <<rs_store, rs_written, rs_deleted, rs_delResolved>>
  /\ RsKeep

\* healthCheck() after the await, lines 485-493
RsHealthCheckDone(outcome) ==
  /\ rs_cmd # <<>> /\ rs_cmd[1].op = "ping"
  /\ rs_cmd' = <<>>
  /\ rs_last' =
       IF outcome = "ok"
       THEN [RsLast EXCEPT !.op = "pinged", !.path = "ok",
                           !.status = "resolved", !.found = TRUE]
       ELSE RsCaught("pinged", <<>>, outcome, RsHealthCheckFailed(outcome),
                     "error: Redis health check failed")
  /\ UNCHANGED <<rs_store, rs_written, rs_deleted, rs_delResolved>>
  /\ RsKeep

\* the time to live of an entry runs out
RsExpire(fk) ==
  /\ fk \in DOMAIN rs_store
  /\ rs_store' = RsRemove(rs_store, fk)
  /\ rs_written' = [k \in CacheKeys |->
                      IF getKey(k) = fk THEN <<>> ELSE rs_written[k]]
  /\ rs_last' = [RsLast EXCEPT !.op = "expired"]
  /\ UNCHANGED <<rs_cmd, rs_deleted, rs_delResolved>>
  /\ RsKeep

\* =========================================================================
\* Construction   (every constructor and factory of the packages)
\* A configuration field is Undefined when absent; an optional list, number
\* or boolean is <<>> when absent and <<v>> when given.
\* =========================================================================
VARIABLES
  ct_last,        \* the latest construction: its input and what it did
  ct_logger       \* what the latest createLogger() was given: the config,
                  \* the environment, whether LokiTransport threw

ct_vars == <<ct_last, ct_logger>>

\* !v on a string
Falsy(v) == v \in {Undefined, Null, ""}

\* the values a string field is given
FieldValues == {Undefined, "", "given"}

\* a constructor that threw: nothing was created
Threw(message) ==
  [status |-> "threw", error |-> message, variant |-> "-", created |-> {},
   log |-> <<>>]
\* a constructor that returned an object of class variant, having created
\* the underlying clients in created
Built(variant, created, log) ==
  [status |-> "returned", error |-> "-", variant |-> variant,
   created |-> created, log |-> log]

\* ---- the documented required fields (the REQUIRED comments)
\* KafkaConfig, index.ts:319-329
KafkaRequired == {"serviceName", "brokers", "username", "password", "groupId"}
\* PostgresConfig, part_012:62-66
PostgresRequired == {"serviceName", "schemaName"}
\* RedisConfig, NEXT-STEPS.md:227-229
RedisRequired == {"serviceName"}
\* LoggerConfig, logger.ts:30-32
LoggerRequired == {"serviceName"}
\* MetricsConfig, pusher.ts:41-43
MetricsRequired == {"serviceName"}
\* OpenAPIConfig, part_010:20-22
OpenAPIRequired == {"schemaPath"}

\* ---- the configurations each is constructed with
KafkaConfigs ==
  [serviceName : FieldValues, brokers : {<<>>, << <<>> >>, << <<"kafka:9092">> >>},
   username : {Undefined, "given"}, password : {Undefined, "given"},
   groupId : {Undefined, "given"}]
PostgresConfigs == [serviceName : FieldValues, schemaName : FieldValues]
RedisConfigs == [serviceName : FieldValues, redisUrl : {Undefined, "redis://cache:6379"}]
RedisEnvs ==
  [REDIS_CACHE_ENABLED : {Undefined, "true", "false", "TRUE"},
   REDIS_URL : {Undefined, "redis://localhost:6379"}]
LoggerConfigs == [serviceName : FieldValues, lokiEnabled : {<<>>, <<TRUE>>, <<FALSE>>}]
LoggerEnvs ==
  [LOKI_ENABLED : {Undefined, "true"}, NODE_ENV : {Undefined, "test", "production"}]
MetricsConfigs == [serviceName : FieldValues]
OpenAPIConfigs == [schemaPath : {Undefined, "", "./openapi.yaml"}]

\* new KafkaConsumer(config), index.ts:71-124
NewKafkaConsumer(config) ==
  IF Falsy(config.serviceName)
  THEN Threw("KafkaConfig.serviceName is required")
  ELSE IF config.brokers = <<>> \/ Len(config.brokers[1]) = 0
  THEN Threw("KafkaConfig.brokers is required")
  ELSE IF Falsy(config.username)
  THEN Threw("KafkaConfig.username is required")
  ELSE IF Falsy(config.password)
  THEN Threw("KafkaConfig.password is required")
  ELSE IF Falsy(config.groupId)
  THEN Threw("KafkaConfig.groupId is required")
  ELSE Built("KafkaConsumer", {"Kafka", "Consumer"}, <<>>)

\* new PostgresClient(config), part_012:98-139
NewPostgresClient(config) ==
  IF Falsy(config.serviceName)
  THEN Threw("PostgresConfig.serviceName is required")
  ELSE IF Falsy(config.schemaName)
  THEN Threw("PostgresConfig.schemaName is required")
  ELSE Built("PostgresClient", {"Pool"}, <<>>)

\* new RedisCache(config), NEXT-STEPS.md:263-277: the redis client is created
\* by connect(), not here
NewRedisCache(config) ==
  IF Falsy(config.serviceName)
  THEN Threw("RedisConfig.serviceName is required")
  ELSE Built("RedisCache", {}, <<>>)

\* (a factory that reads REDIS_CACHE_ENABLED without regard to case)
createRedisCache_AnyCase(config, env) ==
  LET cacheEnabled == env.REDIS_CACHE_ENABLED \in {"true", "TRUE"}
      redisUrl == OrElse(config.redisUrl, env.REDIS_URL)
  IN IF ~cacheEnabled
     THEN Built("NoOpCache", {},
                <<"log: Redis caching disabled (REDIS_CACHE_ENABLED=false)">>)
     ELSE IF Falsy(redisUrl)
     THEN Built("NoOpCache", {}, <<"warn: REDIS_URL not set - caching disabled">>)
     ELSE NewRedisCache([config EXCEPT !.redisUrl = redisUrl])

\* createRedisCache(config), part_001:28-46
createRedisCache(config, env) ==
  LET cacheEnabled == env.REDIS_CACHE_ENABLED = "true"
      redisUrl == OrElse(config.redisUrl, env.REDIS_URL)
  IN IF ~cacheEnabled
     THEN Built("NoOpCache", {},
                <<"log: Redis caching disabled (REDIS_CACHE_ENABLED=false)">>)
     ELSE IF Falsy(redisUrl)
     THEN Built("NoOpCache", {}, <<"warn: REDIS_URL not set - caching disabled">>)
     ELSE NewRedisCache([config EXCEPT !.redisUrl = redisUrl])

\* (a factory that adds the Loki transport in the test environment too)
createLogger_InTests(config, env, lokiThrows) ==
  LET lokiEnabled == Coalesce(config.lokiEnabled, env.LOKI_ENABLED = "true")
  IN IF Falsy(config.serviceName)
     THEN Threw("LoggerConfig.serviceName is required")
     ELSE IF lokiEnabled
     THEN IF lokiThrows
          THEN Built("Logger", {"Console"},
                     <<"warn: Failed to initialize Loki transport, using console only">>)
          ELSE Built("Logger", {"Console", "LokiTransport"}, <<>>)
     ELSE Built("Logger", {"Console"}, <<>>)

\* createLogger(config), logger.ts:51-139: the Loki transport is added when
\* enabled outside the test environment, and left out when creating it throws
createLogger(config, env, lokiThrows) ==
  LET lokiEnabled == Coalesce(config.lokiEnabled, env.LOKI_ENABLED = "true")
  IN IF Falsy(config.serviceName)
     THEN Threw("LoggerConfig.serviceName is required")
     ELSE IF lokiEnabled /\ env.NODE_ENV # "test"
     THEN IF lokiThrows
          THEN Built("Logger", {"Console"},
                     <<"warn: Failed to initialize Loki transport, using console only">>)
          ELSE Built("Logger", {"Console", "LokiTransport"}, <<>>)
     ELSE Built("Logger", {"Console"}, <<>>)

\* new MetricsPusher(config), pusher.ts:68-78
NewMetricsPusher(config) ==
  IF Falsy(config.serviceName)
  THEN Threw("MetricsConfig.serviceName is required")
  ELSE Built("MetricsPusher", {}, <<>>)

\* createOpenAPIMiddleware(config), part_009:46-81
createOpenAPIMiddleware(config) ==
  IF Falsy(config.schemaPath)
  THEN Threw("OpenAPIConfig.schemaPath is required")
  ELSE Built("RequestHandler[]", {"OpenApiValidator"},
             <<"info: Initializing OpenAPI validator">>)

\* the documented required fields that config does not give
MissingFields(config, required) ==
  {f \in required : IF f = "brokers" THEN config[f] = <<>>
                    ELSE config[f] = Undefined}

CtLast == [op |-> "new", missing |-> {}, result |-> Built("-", {}, <<>>)]

NoLoggerInput ==
  [serviceName |-> Undefined, lokiEnabled |-> <<>>, LOKI_ENABLED |-> Undefined,
   NODE_ENV |-> Undefined, lokiThrows |-> FALSE]

CtInit ==
  /\ ct_last = CtLast
  /\ ct_logger = NoLoggerInput

CtConstruct(op, missing, result) ==
  /\ ct_last' = [op |-> op, missing |-> missing, result |-> result]
  /\ ct_logger' = NoLoggerInput

CtKafkaConsumer(config) ==
  CtConstruct("KafkaConsumer", MissingFields(config, KafkaRequired),
              NewKafkaConsumer(config))
CtPostgresClient(config) ==
  CtConstruct("PostgresClient", MissingFields(config, PostgresRequired),
              NewPostgresClient(config))
CtRedisCache(config) ==
  CtConstruct("RedisCache", MissingFields(config, RedisRequired),
              NewRedisCache(config))
CtCreateRedisCache(config, env) ==
  CtConstruct("createRedisCache", MissingFields(config, RedisRequired),
              createRedisCache(config, env))
CtCreateLogger(config, env, lokiThrows) ==
  /\ ct_last' = [op |-> "createLogger",
                 missing |-> MissingFields(config, LoggerRequired),
                 result |-> createLogger(config, env, lokiThrows)]
  /\ ct_logger' = [serviceName |-> config.serviceName,
                   lokiEnabled |-> config.lokiEnabled,
                   LOKI_ENABLED |-> env.LOKI_ENABLED, NODE_ENV |-> env.NODE_ENV,
                   lokiThrows |-> lokiThrows]
CtMetricsPusher(config) ==
  CtConstruct("MetricsPusher", MissingFields(config, MetricsRequired),
              NewMetricsPusher(config))
CtCreateOpenAPIMiddleware(config) ==
  CtConstruct("createOpenAPIMiddleware", MissingFields(config, OpenAPIRequired),
              createOpenAPIMiddleware(config))

\* =========================================================================
\* Cache factory and NoOpCache   (part_001:28-46, noop-cache.ts:13-45)
\* createRedisCache() is called once; the object it returned is then used
\* through the CacheClient interface. A RedisCache it returned is the
\* RedisCache above.
\* =========================================================================
VARIABLES
  cf_variant,  \* class of the object createRedisCache() returned, "none"
               \* before the call, "threw" when the call threw
  cf_calls,    \* the methods called on a NoOpCache so far, oldest first (the
               \* latest MaxCalls of them)
  cf_last      \* the latest call: its name, arguments and outcome

cf_vars == <<cf_variant, cf_calls, cf_last>>

NoRedisConfig == [serviceName |-> Undefined, redisUrl |-> Undefined]
NoRedisEnv == [REDIS_CACHE_ENABLED |-> Undefined, REDIS_URL |-> Undefined]

\* returned is <<>> for a method that returns nothing
CfLast ==
  [op |-> "new", config |-> NoRedisConfig, env |-> NoRedisEnv,
   status |-> "-", returned |-> <<>>, log |-> <<>>]

CfInit ==
  /\ cf_variant = "none"
  /\ cf_calls = <<>>
  /\ cf_last = CfLast

\* the application creates its cache client
CfCreate(config, env) ==
  /\ cf_variant = "none"
  /\ LET result == createRedisCache(config, env)
     IN /\ cf_variant' = IF result.status = "threw" THEN "threw"
                         ELSE result.variant
        /\ cf_last' = [CfLast EXCEPT !.op = "createRedisCache",
                                     !.config = config, !.env = env,
                                     !.status = result.status,
                                     !.log = result.log]
  /\ UNCHANGED cf_calls

\* NoOpCache, noop-cache.ts:14-44: what each method resolves to (isConnected
\* returns it)
NoOpConnect == <<>>
NoOpDisconnect == <<>>
\* (a get that answers with the key)
NoOpGet_Echo(key) == <<JStr(key)>>
NoOpGet(key) == <<JNull>>
NoOpSet(key, value, ttl) == <<>>
NoOpDelete(key) == <<>>
NoOpExists(key) == <<JBool(FALSE)>>
NoOpIsConnected == <<JBool(FALSE)>>
NoOpHealthCheck == <<JBool(FALSE)>>

CfRemember(op) ==
  IF Len(cf_calls) < MaxCalls THEN Append(cf_calls, op)
  ELSE Append(Tail(cf_calls), op)

\* a method of the NoOpCache is called and returns
CfNoOp(op, returned) ==
  /\ cf_variant = "NoOpCache"
  /\ cf_last' = [CfLast EXCEPT !.op = op, !.status = "resolved",
                               !.returned = returned]
  /\ cf_calls' = CfRemember(op)
  /\ UNCHANGED cf_variant

CfConnect == CfNoOp("connect", NoOpConnect)
CfDisconnect == CfNoOp("disconnect", NoOpDisconnect)
CfGet(key) == CfNoOp("get", NoOpGet(key))
CfSet(key, value, ttl) == CfNoOp("set", NoOpSet(key, value, ttl))
CfDelete(key) == CfNoOp("delete", NoOpDelete(key))
CfExists(key) == CfNoOp("exists", NoOpExists(key))
CfIsConnected == CfNoOp("isConnected", NoOpIsConnected)
CfHealthCheck == CfNoOp("healthCheck", NoOpHealthCheck)

\* a method of the RedisCache is called: cf_last describes the latest step
CfKeep ==
  /\ UNCHANGED <<cf_variant, cf_calls>>
  /\ cf_last' = IF cf_variant = "none" THEN cf_last
                ELSE [CfLast EXCEPT !.op = "RedisCache"]

\* =========================================================================
\* OpenAPI error handler   (part_009:104-133)
\* An error is given by the three fields the handler reads. status is <<>>
\* when absent; errors is absent, an array of items, or an object that is no
\* array.
\* =========================================================================
VARIABLE eh_last   \* the latest call of the handler: the error and what the
                   \* handler did with res, next and the logger

eh_vars == <<eh_last>>

ValidationItems ==
  {[path |-> "/body/name", message |-> "must be string", errorCode |-> code] :
     code \in {Undefined, "type.openapi.validation"}}
ErrorsFields ==
  {[kind |-> "absent", items |-> <<>>], [kind |-> "object", items |-> <<>>],
   [kind |-> "array", items |-> <<>>]}
    \cup {[kind |-> "array", items |-> <<e>>] : e \in ValidationItems}
    \cup {[kind |-> "array", items |-> <<e, f>>] : e, f \in ValidationItems}
HandledErrors ==
  [status : {<<>>, <<0>>, <<400>>, <<422>>},
   message : {Undefined, "", "request.body.name is required"},
   errors : ErrorsFields]

NoError == [status |-> <<>>, message |-> Undefined,
            errors |-> [kind |-> "absent", items |-> <<>>]]
NoBody == [status |-> <<>>, message |-> Undefined, errors |-> <<>>]

\* line 108: err.status && err.errors; 0 is falsy, every array and object is
\* truthy
IsValidationError(err) ==
  /\ err.status # <<>> /\ err.status[1] # 0
  /\ err.errors.kind # "absent"

\* lines 116-124: the response body
ValidationResponse(err) ==
  [status |-> err.status,
   message |-> OrElse(err.message, "Validation failed"),
   errors |-> [i \in 1..Len(err.errors.items) |->
                 [path |-> err.errors.items[i].path,
                  message |-> err.errors.items[i].message,
                  errorCode |-> OrElse(err.errors.items[i].errorCode,
                                       "VALIDATION_ERROR")]]]

\* what one call of the handler did
Handled(log, sent, nextArgs, threw) ==
  [log |-> log, responded |-> sent # <<>>,
   statusCode |-> IF sent = <<>> THEN 0 ELSE sent[1].status[1],
   body |-> IF sent = <<>> THEN NoBody ELSE sent[1],
   nextArgs |-> nextArgs, threw |-> threw]

\* the handler, lines 106-132: err.errors.map of something that is no array
\* is not a function, and the call throws after the warning was logged
OpenAPIErrorHandler(err) ==
  IF IsValidationError(err)
  THEN IF err.errors.kind = "array"
       THEN Handled(<<"warn: OpenAPI validation error">>,
                    <<ValidationResponse(err)>>, <<>>, "-")
       ELSE Handled(<<"warn: OpenAPI validation error">>, <<>>, <<>>,
                    "TypeError")
  ELSE Handled(<<>>, <<>>, <<err>>, "-")

EhLast == [op |-> "new", err |-> NoError,
           result |-> Handled(<<>>, <<>>, <<>>, "-")]

EhInit == eh_last = EhLast

\* Express passes an error to the handler
EhHandle(err) ==
  eh_last' = [op |-> "handled", err |-> err, result |-> OpenAPIErrorHandler(err)]

\* =========================================================================
\* Optional configuration fields   (logger.ts:52-59, part_012:109-115,
\* NEXT-STEPS.md:270, pusher.ts:74-76)
\* A field of the configuration object and an environment variable are
\* Undefined when absent, and otherwise a string that may be empty.
\* =========================================================================
VARIABLE cg_last   \* the latest field resolved: its name, the config value,
                   \* the environment variables read and the value used

cg_vars == <<cg_last>>

GivenValues == {Undefined, "", "from-config"}
EnvValues == {Undefined, "", "from-env"}
SecondEnvValues == {Undefined, "from-env-2"}

\* a destructuring default, logger.ts:52-59: it applies to undefined only
DefaultTo(given, default) == IF given = Undefined THEN default ELSE given

\* logger.ts:54: level = process.env.LOG_LEVEL || 'info'
LoggerLevel(level, LOG_LEVEL) == DefaultTo(level, OrElse(LOG_LEVEL, "info"))
\* logger.ts:58: environment = process.env.ENVIRONMENT ||
\* process.env.NODE_ENV || 'development'
LoggerEnvironment(environment, ENVIRONMENT, NODE_ENV) ==
  DefaultTo(environment, OrElse(OrElse(ENVIRONMENT, NODE_ENV), "development"))
\* logger.ts:55
LoggerLokiHost(lokiHost, LOKI_HOST) ==
  DefaultTo(lokiHost, OrElse(LOKI_HOST, "http://localhost:3100"))
\* part_012:110: config.host || process.env.PGHOST || 'localhost'
PoolHost(host, PGHOST) == OrElse(OrElse(host, PGHOST), "localhost")
\* part_012:114: config.password || process.env.PGPASSWORD || 'postgres'
PoolPassword(password, PGPASSWORD) ==
  OrElse(OrElse(password, PGPASSWORD), "postgres")
\* NEXT-STEPS.md:270: config.redisUrl || process.env.REDIS_URL ||
\* 'redis://localhost:6379'
RedisUrl(redisUrl, REDIS_URL) ==
  OrElse(OrElse(redisUrl, REDIS_URL), "redis://localhost:6379")
\* pusher.ts:74: config.alloyUrl || process.env.ALLOY_PUSH_URL || ''
PusherAlloyUrl(alloyUrl, ALLOY_PUSH_URL) ==
  OrElse(OrElse(alloyUrl, ALLOY_PUSH_URL), "")
\* pusher.ts:76: config.environment || process.env.NODE_ENV || 'development'
PusherEnvironment(environment, NODE_ENV) ==
  OrElse(OrElse(environment, NODE_ENV), "development")

\* the literal default of each field
FieldDefault ==
  [loggerLevel |-> "info", loggerEnvironment |-> "development",
   loggerLokiHost |-> "http://localhost:3100", poolHost |-> "localhost",
   poolPassword |-> "postgres", redisUrl |-> "redis://localhost:6379",
   pusherAlloyUrl |-> "", pusherEnvironment |-> "development"]
ConfigFields == DOMAIN FieldDefault

\* the value a component uses for field; only the logger's environment reads
\* a second variable
ResolveField(field, given, env, env2) ==
  CASE field = "loggerLevel" -> LoggerLevel(given, env)
    [] field = "loggerEnvironment" -> LoggerEnvironment(given, env, env2)
    [] field = "loggerLokiHost" -> LoggerLokiHost(given, env)
    [] field = "poolHost" -> PoolHost(given, env)
    [] field = "poolPassword" -> PoolPassword(given, env)
    [] field = "redisUrl" -> RedisUrl(given, env)
    [] field = "pusherAlloyUrl" -> PusherAlloyUrl(given, env)
    [] field = "pusherEnvironment" -> PusherEnvironment(given, env)

CgLast == [field |-> "-", given |-> Undefined, env |-> Undefined,
           env2 |-> Undefined, used |-> Undefined]

CgInit == cg_last = CgLast

\* a component is constructed and resolves one of its optional fields
CgResolve(field, given, env, env2) ==
  /\ field # "loggerEnvironment" => env2 = Undefined
  /\ cg_last' = [field |-> field, given |-> given, env |-> env, env2 |-> env2,
                 used |-> ResolveField(field, given, env, env2)]

\* =========================================================================
\* GET /metrics   (routes.ts:36-60)
\* One request is handled at a time; each request has a response of its own.
\* =========================================================================
VARIABLES
  mr_pc,    \* "idle", or "await" while the handler is suspended at
            \* await registry.metrics()
  mr_res,   \* the response: headers set, status code, body, whether ended
  mr_log,   \* what the handler has logged for this request
  mr_last   \* the latest step of the handler and how the handler settled

mr_vars == <<mr_pc, mr_res, mr_log, mr_last>>

\* registry.contentType of prom-client
RegistryContentType == "text/plain; version=0.0.4; charset=utf-8"

\* a response nothing was written to: Express answers 200 unless told
FreshResponse ==
  [contentType |-> Undefined, statusCode |-> 200, body |-> <<>>,
   ended |-> FALSE, errorBody |-> FALSE]

MrLast == [op |-> "new", underlying |-> "-", status |-> "-", error |-> "-"]

MrInit ==
  /\ mr_pc = "idle"
  /\ mr_res = FreshResponse
  /\ mr_log = <<>>
  /\ mr_last = MrLast

\* (a catch block that rethrows)
MrFailed_Rethrow(e) == Rejected(e)
\* lines 50-56: the catch block logs and answers 500
MrFailed(e) == Resolved

\* lines 51-55: log.error(...); res.status(500).end('Error generating
\* metrics')
MrCatch(res, e, op) ==
  /\ mr_log' = <<"error: Error generating metrics">>
  /\ mr_res' = [res EXCEPT !.statusCode = 500, !.ended = TRUE,
                           !.errorBody = TRUE]
  /\ mr_last' = [op |-> op, underlying |-> e, status |-> MrFailed(e).status,
                 error |-> MrFailed(e).error]

\* the handler up to await registry.metrics(), lines 45-48; getRegistry()
\* or reading contentType may throw
MrGet(outcome) ==
  /\ mr_pc = "idle"
  /\ IF outcome = "ok"
     THEN /\ mr_pc' = "await"
          /\ mr_res' = [FreshResponse EXCEPT !.contentType = RegistryContentType]
          /\ mr_log' = <<>>
          /\ mr_last' = [MrLast EXCEPT !.op = "get", !.status = "pending"]
     ELSE /\ mr_pc' = "idle"
          /\ MrCatch(FreshResponse, outcome, "answered")

\* the handler after the await, lines 48-56
MrMetricsDone(outcome, text) ==
  /\ mr_pc = "await"
  /\ mr_pc' = "idle"
  /\ IF outcome = "ok"
     THEN /\ mr_res' = [mr_res EXCEPT !.body = text, !.ended = TRUE]
          /\ mr_log' = <<>>
          /\ mr_last' = [MrLast EXCEPT !.op = "answered", !.underlying = "ok",
                                       !.status = "resolved"]
     ELSE MrCatch(mr_res, outcome, "answered")

\* =========================================================================
\* Exposition text given to parsePrometheusMetrics
\* A snapshot of two sample lines, with a comment or a blank line between
\* them or nothing. A sample line is name, label block, value token and
\* timestamp, of which all but the name may be missing.
\* =========================================================================
VARIABLE pl_last   \* the latest snapshot parsed, line by line, and the
                   \* Record<string, number> the parser returned for it

pl_vars == <<pl_last>>

SampleNames == {<<"u", "p">>, <<"a", ":", "b", "_", "1">>}
\* {a="x 1"} and {a="y"}
LabelX == <<"{", "a", "=", "\"", "x", " ", "1", "\"", "}">>
LabelY == <<"{", "a", "=", "\"", "y", "\"", "}">>
\* the value tokens, and the number each one denotes; NaN and +Inf are
\* what the registry writes for values that are no finite number
NumberTokens ==
  {<<"4", "2">>, <<"9">>, <<"1", ".", "5">>, <<"2", "e", "3">>, <<"-", "7">>}
OtherTokens == {<<"N", "a", "N">>, <<"+", "I", "n", "f">>}
NoToken == <<>>
TokenNumber(tok) ==
  CASE tok = <<"4", "2">> -> [nan |-> FALSE, m |-> 42, e |-> 0]
    [] tok = <<"9">> -> [nan |-> FALSE, m |-> 9, e |-> 0]
    [] tok = <<"1", ".", "5">> -> [nan |-> FALSE, m |-> 15, e |-> -1]
    [] tok = <<"2", "e", "3">> -> [nan |-> FALSE, m |-> 2, e |-> 3]
    [] tok = <<"-", "7">> -> [nan |-> FALSE, m |-> -7, e |-> 0]
\* " 17"
Timestamp == <<" ", "1", "7">>

SampleLine(name, labels, value, ts) ==
  [name |-> name, labels |-> labels, value |-> value, ts |-> ts]
FirstLines ==
  {SampleLine(n, l, v, t) :
     n \in SampleNames, l \in {<<>>, LabelX},
     v \in NumberTokens \cup OtherTokens, t \in {<<>>, Timestamp}}
    \cup {SampleLine(n, l, NoToken, <<>>) : n \in SampleNames, l \in {<<>>, LabelX}}
SecondLines ==
  {SampleLine(n, LabelY, v, <<>>) :
     n \in SampleNames, v \in {<<"9">>, <<"N", "a", "N">>, NoToken}}
    \cup {SampleLine(n, LabelY, <<"N", "a", "N">>, Timestamp) : n \in SampleNames}
\* nothing, "# HELP up\n", " \n"
Fillers ==
  {<<>>, <<"#", " ", "H", "E", "L", "P", " ", "u", "p", "\n">>, <<" ", "\n">>}

\* the text of a sample line, newline included
Render(l) ==
  l.name \o l.labels \o (IF l.value = NoToken THEN <<>> ELSE <<" ">> \o l.value)
    \o l.ts \o <<"\n">>

PlLast ==
  [op |-> "new", first |-> SampleLine(<<>>, <<>>, NoToken, <<>>),
   second |-> SampleLine(<<>>, <<>>, NoToken, <<>>), filler |-> <<>>,
   metrics |-> EmptyMetrics]

PlInit == pl_last = PlLast

\* pushMetrics() parses a snapshot, pusher.ts:161; a behaviour looks at one
\* snapshot
PlParse(first, filler, second) ==
  /\ pl_last.op = "new"
  /\ pl_last' = [op |-> "parsed", first |-> first, second |-> second,
                 filler |-> filler,
                 metrics |-> parsePrometheusMetrics(
                               Render(first) \o filler \o Render(second))]

\* =========================================================================
\* Specifications
\* =========================================================================
\* The components share no state and never call one another, so a behaviour
\* exercises one of them: component names it.
VARIABLE component

Components ==
  {"MetricsPusher", "KafkaConsumer", "PostgresClient", "RedisCache",
   "Construction", "CacheFactory", "OpenAPIErrorHandler",
   "Configuration", "MetricsRoute", "Parser"}

vars ==
  <<component, mp_vars, kc_vars, pg_vars, rc_vars, rs_vars, ct_vars, cf_vars,
    eh_vars, cg_vars, mr_vars, pl_vars>>

\* a component that is not exercised is constructed in one fixed way
Init ==
  /\ component \in Components
  /\ MpInit /\ KcInit /\ PgInit /\ RcInit /\ RsInit /\ CtInit /\ CfInit
  /\ EhInit /\ CgInit /\ MrInit /\ PlInit
  /\ component # "MetricsPusher"
       => (mp_alloyUrl = "" /\ mp_pushIntervalMs = MpPushIntervalMs([pushInterval |-> <<>>]))
  /\ component # "RedisCache" => rs_store = <<>>

IsMp == component = "MetricsPusher"
IsKc == component = "KafkaConsumer"
IsPg == component = "PostgresClient"
IsRc ==
  \/ component = "RedisCache"
  \/ component = "CacheFactory" /\ cf_variant = "RedisCache"
IsCf == component = "CacheFactory"
IsEh == component = "OpenAPIErrorHandler"
IsCg == component = "Configuration"
IsMr == component = "MetricsRoute"
IsPl == component = "Parser"
IsCt == component = "Construction"
MpFrame ==
  UNCHANGED <<component, pl_vars, kc_vars, pg_vars, rc_vars, rs_vars, ct_vars, cf_vars,
              eh_vars, cg_vars, mr_vars>>
KcFrame ==
  UNCHANGED <<component, pl_vars, mp_vars, pg_vars, rc_vars, rs_vars, ct_vars, cf_vars,
              eh_vars, cg_vars, mr_vars>>
PgFrame ==
  UNCHANGED <<component, pl_vars, mp_vars, kc_vars, rc_vars, rs_vars, ct_vars, cf_vars,
              eh_vars, cg_vars, mr_vars>>
\* connect(), disconnect() and the client's events leave the store as it is;
\* rs_last describes the latest step, which is then none of the data operations
RcFrame ==
  /\ UNCHANGED <<component, pl_vars, mp_vars, kc_vars, pg_vars, ct_vars, eh_vars, cg_vars,
                 mr_vars, rs_store, rs_cmd, rs_written, rs_deleted, rs_delResolved>>
  /\ rs_last' = [RsLast EXCEPT !.op = "connection"]
  /\ CfKeep
RsFrame ==
  /\ UNCHANGED <<component, pl_vars, mp_vars, kc_vars, pg_vars, ct_vars, eh_vars,
                 cg_vars, mr_vars>>
  /\ CfKeep
CtFrame ==
  UNCHANGED <<component, pl_vars, mp_vars, kc_vars, pg_vars, rc_vars, rs_vars, cf_vars,
              eh_vars, cg_vars, mr_vars>>
CfFrame ==
  UNCHANGED <<component, pl_vars, mp_vars, kc_vars, pg_vars, rc_vars, rs_vars, ct_vars,
              eh_vars, cg_vars, mr_vars>>
EhFrame ==
  UNCHANGED <<component, pl_vars, mp_vars, kc_vars, pg_vars, rc_vars, rs_vars, ct_vars,
              cf_vars, cg_vars, mr_vars>>
CgFrame ==
  UNCHANGED <<component, pl_vars, mp_vars, kc_vars, pg_vars, rc_vars, rs_vars, ct_vars,
              cf_vars, eh_vars, mr_vars>>

MrFrame ==
  UNCHANGED <<component, pl_vars, mp_vars, kc_vars, pg_vars, rc_vars, rs_vars, ct_vars,
              cf_vars, eh_vars, cg_vars>>

PlFrame ==
  UNCHANGED <<component, mp_vars, kc_vars, pg_vars, rc_vars, rs_vars, ct_vars,
              cf_vars, eh_vars, cg_vars, mr_vars>>

\* the arguments set() is called with: a RedisCache built directly is given
\* every value and ttl, the one createRedisCache() returned a single pair
SetValues == IF component = "RedisCache" THEN CacheValues ELSE {JNum(42)}
SetTtls == IF component = "RedisCache" THEN Ttls ELSE {<<>>}

Next ==
  \/ IsMp /\ MpStart /\ MpFrame
  \/ IsMp /\ MpStop /\ MpFrame
  \/ IsMp /\ MpPush /\ MpFrame
  \/ \E t \in mp_timers : IsMp /\ MpTick(t) /\ MpFrame
  \/ \E c \in MpInFlight : IsMp /\ MpStartResume(c) /\ MpFrame
  \/ \E c \in MpInFlight : IsMp /\ MpReadDone(c) /\ MpFrame
  \/ \E c \in MpInFlight : IsMp /\ MpForwardDone(c) /\ MpFrame
  \/ IsKc /\ KcConnect /\ KcFrame
  \/ \E outcome \in Outcomes : IsKc /\ KcConnectDone(outcome) /\ KcFrame
  \/ IsKc /\ KcSubscribe /\ KcFrame
  \/ \E outcome \in Outcomes : IsKc /\ KcSubscribeTopicDone(outcome) /\ KcFrame
  \/ \E outcome \in Outcomes : IsKc /\ KcSubscribeRunDone(outcome) /\ KcFrame
  \/ IsKc /\ KcDisconnect /\ KcFrame
  \/ \E outcome \in Outcomes : IsKc /\ KcDisconnectDone(outcome) /\ KcFrame
  \/ IsKc /\ KcDeliver /\ KcFrame
  \/ \E o \in kc_handlers, thrown \in BOOLEAN :
       IsKc /\ KcHandlerDone(o, thrown) /\ KcFrame
  \/ IsPg /\ PgConnect /\ PgFrame
  \/ \E outcome \in Outcomes : IsPg /\ PgConnectDone(outcome) /\ PgFrame
  \/ IsPg /\ PgDisconnect /\ PgFrame
  \/ \E outcome \in Outcomes : IsPg /\ PgDisconnectDone(outcome) /\ PgFrame
  \/ IsPg /\ PgQuery /\ PgFrame
  \/ \E outcome \in Outcomes, rows \in RowSets :
       IsPg /\ PgQueryDone(outcome, rows) /\ PgFrame
  \/ IsPg /\ PgQueryOne /\ PgFrame
  \/ \E outcome \in Outcomes, rows \in RowSets :
       IsPg /\ PgQueryOneDone(outcome, rows) /\ PgFrame
  \/ IsPg /\ PgHealthCheck /\ PgFrame
  \/ \E outcome \in Outcomes : IsPg /\ PgHealthCheckDone(outcome) /\ PgFrame
  \/ IsRc /\ RcConnect /\ RcFrame
  \/ \E c \in rc_pending, outcome \in Outcomes :
       IsRc /\ RcConnectDone(c, outcome) /\ RcFrame
  \/ \E c \in rc_clients, ev \in ClientEvents :
       IsRc /\ RcEvent(c, ev) /\ RcFrame
  \/ IsRc /\ RcDisconnect /\ RcFrame
  \/ \E outcome \in Outcomes : IsRc /\ RcDisconnectDone(outcome) /\ RcFrame
  \/ \E key \in CacheKeys : IsRc /\ RsGet(key) /\ RsFrame
  \/ \E outcome \in Outcomes : IsRc /\ RsGetDone(outcome) /\ RsFrame
  \/ \E key \in CacheKeys, value \in SetValues, ttl \in SetTtls :
       IsRc /\ RsSet(key, value, ttl) /\ RsFrame
  \/ \E outcome \in Outcomes : IsRc /\ RsSetDone(outcome) /\ RsFrame
  \/ \E key \in CacheKeys : IsRc /\ RsDelete(key) /\ RsFrame
  \/ \E outcome \in Outcomes : IsRc /\ RsDeleteDone(outcome) /\ RsFrame
  \/ IsRc /\ RsHealthCheck /\ RsFrame
  \/ \E outcome \in Outcomes : IsRc /\ RsHealthCheckDone(outcome) /\ RsFrame
  \/ \E key \in CacheKeys : IsRc /\ RsExists(key) /\ RsFrame
  \/ \E outcome \in Outcomes : IsRc /\ RsExistsDone(outcome) /\ RsFrame
  \/ \E fk \in DOMAIN rs_store : IsRc /\ RsExpire(fk) /\ RsFrame
  \/ \E config \in KafkaConfigs : IsCt /\ CtKafkaConsumer(config) /\ CtFrame
  \/ \E config \in PostgresConfigs :
       IsCt /\ CtPostgresClient(config) /\ CtFrame
  \/ \E config \in RedisConfigs : IsCt /\ CtRedisCache(config) /\ CtFrame
  \/ \E config \in RedisConfigs, env \in RedisEnvs :
       IsCt /\ CtCreateRedisCache(config, env) /\ CtFrame
  \/ \E config \in LoggerConfigs, env \in LoggerEnvs, lokiThrows \in BOOLEAN :
       IsCt /\ CtCreateLogger(config, env, lokiThrows) /\ CtFrame
  \/ \E config \in MetricsConfigs : IsCt /\ CtMetricsPusher(config) /\ CtFrame
  \/ \E config \in OpenAPIConfigs :
       IsCt /\ CtCreateOpenAPIMiddleware(config) /\ CtFrame
  \/ \E config \in RedisConfigs, env \in RedisEnvs :
       IsCf /\ CfCreate(config, env) /\ CfFrame
  \/ IsCf /\ CfConnect /\ CfFrame
  \/ IsCf /\ CfDisconnect /\ CfFrame
  \/ \E key \in CacheKeys : IsCf /\ CfGet(key) /\ CfFrame
  \/ \E key \in CacheKeys, value \in CacheValues, ttl \in Ttls :
       IsCf /\ CfSet(key, value, ttl) /\ CfFrame
  \/ \E key \in CacheKeys : IsCf /\ CfDelete(key) /\ CfFrame
  \/ \E key \in CacheKeys : IsCf /\ CfExists(key) /\ CfFrame
  \/ IsCf /\ CfIsConnected /\ CfFrame
  \/ IsCf /\ CfHealthCheck /\ CfFrame
  \/ \E err \in HandledErrors : IsEh /\ EhHandle(err) /\ EhFrame
  \/ \E field \in ConfigFields, given \in GivenValues, env \in EnvValues,
        env2 \in SecondEnvValues :
       IsCg /\ CgResolve(field, given, env, env2) /\ CgFrame
  \/ \E outcome \in Outcomes : IsMr /\ MrGet(outcome) /\ MrFrame
  \/ \E outcome \in Outcomes, text \in RegistryTexts :
       IsMr /\ MrMetricsDone(outcome, text) /\ MrFrame
  \/ \E first \in FirstLines, filler \in Fillers, second \in SecondLines :
       IsPl /\ PlParse(first, filler, second) /\ PlFrame

Spec == Init /\ [][Next]_vars

\* =========================================================================
\* Claims
\* =========================================================================
\* ------------------------------------------------- MetricsPusher: claims
\* a timer-driven push cycle began in the latest step
TickBegan == mp_last.kind = "tick" /\ mp_last.op \in {"push"}
\* a start() is still awaiting its initial push
InitialPushPending ==
  \E c \in MpInFlight : c.kind = "start" /\ c.pc \in {"read", "forward"}

\* C1: once stop() has returned, no timer-driven push cycle begins until
\* start() is called again, whatever the interleaving of start(), stop() and
\* in-flight pushes.
C1_NoTickAfterStop == ~(mp_afterStop /\ TickBegan)

\* C2: start() on a running pusher (a first start() still awaiting its initial
\* push included) begins no push, creates no timer and logs a warning; start()
\* with no endpoint does the same and leaves isActive() false.
C2_StartNoOp ==
  [][(mp_last'.op = "start" /\ (mp_isRunning \/ mp_alloyUrl = ""))
       => /\ mp_calls' = mp_calls
          /\ mp_timers' = mp_timers
          /\ mp_intervalId' = mp_intervalId
          /\ mp_nextTimer' = mp_nextTimer
          /\ mp_isRunning' = mp_isRunning
          /\ mp_remote' = <<>>
          /\ mp_log' =
               IF mp_isRunning
               THEN <<"warn: Metrics pusher already running">>
               ELSE <<"warn: Alloy URL not configured - metrics push disabled">>
          /\ (mp_alloyUrl = "" => ~mp_isRunning')]_vars

\* C2 witness: a second start() was issued while the first awaits its push
C2_SecondStartWhileAwaiting ==
  /\ mp_last.op = "start"
  /\ mp_last.status = "already"
  /\ InitialPushPending

\* C3: no timer-driven push begins while a start() from idle is still waiting
\* for its immediate push to complete.
C3_NoTickBeforeInitialPushDone == ~(TickBegan /\ InitialPushPending)

\* C4: pushMetrics() never rejects; a failed push is logged, leaves the timer
\* and isActive() as they were, and is followed by no retry.
C4_PushNeverRejects ==
  [][mp_last'.op = "settled"
       => /\ mp_last'.status = "resolved"
          /\ mp_last'.failed
               => /\ mp_log' = <<"error: Failed to push metrics">>
                  /\ mp_timers' = mp_timers
                  /\ mp_intervalId' = mp_intervalId
                  /\ mp_isRunning' = mp_isRunning
                  /\ mp_remote' = <<>>
                  /\ BagCardinality(mp_calls') <= BagCardinality(mp_calls)]_vars

\* C4 witness: a tick's push failed on a running pusher whose timer is live
C4_FailedTickPush ==
  /\ mp_last.op = "settled"
  /\ mp_last.kind = "tick"
  /\ mp_last.failed
  /\ mp_isRunning
  /\ mp_timers # {}

\* C5: a push cycle makes exactly one forwarding call when the parsed sample
\* set is non-empty, with that set, the configured URL and the two labels
\* service and environment; it makes none when the set is empty (a warning is
\* logged) or when no endpoint is configured.
C5_ForwardOncePerCycle ==
  /\ mp_last.op = "forward"
       => /\ Len(mp_remote) = 1
          /\ mp_remote[1].metrics = Parsed[mp_last.text]
          /\ DOMAIN mp_remote[1].metrics # {}
          /\ mp_remote[1].url = mp_alloyUrl
          /\ mp_remote[1].labels =
               [service |-> ServiceName, environment |-> Environment]
          /\ (mp_last.text = TextRequests
                => mp_remote[1].metrics = (NameMatch(TextRequests) :> Num(42, 0)))
  /\ mp_last.op # "forward" => mp_remote = <<>>
  /\ (mp_last.op = "settled" /\ mp_last.read)
       => /\ mp_last.fwd = (IF DOMAIN Parsed[mp_last.text] = {} THEN 0 ELSE 1)
          /\ (mp_last.fwd = 0 => mp_log = <<"warn: No metrics to push">>)
  /\ (mp_last.op = "settled" /\ mp_alloyUrl = "") => mp_last.fwd = 0

\* C5 witness: the snapshot "requests_total 42" was forwarded
C5_RequestsForwarded ==
  /\ mp_last.op = "settled"
  /\ mp_last.text = TextRequests
  /\ mp_last.fwd = 1

\* C6: isActive() is false for a new pusher, true once start() has resolved
\* with no stop() in between, false after stop(); stop() on an idle pusher
\* changes nothing, so a second stop() has no further effect.
C6_IsActive ==
  /\ [](mp_last.op = "new" => ~mp_isRunning)
  /\ []((mp_last.op = "started" /\ ~mp_last.stopped) => mp_isRunning)
  /\ [](mp_last.op = "stop" => ~mp_isRunning)
  /\ [][(mp_last'.op = "stop" /\ ~mp_isRunning)
          => /\ mp_isRunning' = mp_isRunning
             /\ mp_intervalId' = mp_intervalId
             /\ mp_timers' = mp_timers
             /\ mp_calls' = mp_calls
             /\ mp_log' = <<>>]_vars

\* C6 witness: stop() was called again on a pusher that had been started and
\* stopped
C6_StopTwice ==
  /\ mp_last.op = "stop"
  /\ mp_last.status = "idle"
  /\ mp_nextTimer > 1

\* ------------------------------------------------- KafkaConsumer: claims
\* C7: when the handler throws on message M, errorCount grows by exactly 1,
\* processedCount is untouched, the per-message callback still resolves, the
\* subscription stays active with M+1 the next message, and M is never
\* delivered again.
C7_HandlerThrowCounted ==
  /\ [][(kc_last'.op = "handled" /\ kc_last'.thrown)
          => /\ kc_stats'.errorCount = kc_stats.errorCount + 1
             /\ kc_stats'.processedCount = kc_stats.processedCount
             /\ kc_last'.status = "resolved"
             /\ kc_libRunning' = kc_libRunning
             /\ kc_isRunning' = kc_isRunning
             /\ kc_offset' = kc_last'.offset + 1]_vars
  /\ [](\A i, j \in 1..Len(kc_invoked) : i < j => kc_invoked[i] # kc_invoked[j])

\* C7 witness: the handler threw on message 1 and message 2 is delivered
C7_NextDeliveredAfterThrow ==
  /\ kc_last.op = "deliver"
  /\ kc_last.offset = 2
  /\ kc_stats.errorCount = 1
  /\ kc_stats.processedCount = 0

\* C8: at most one handler invocation is in flight, the handler for message
\* N+1 is invoked only once the one for N has completed, and handlers run in
\* delivery order.
C8_OneHandlerAtATime ==
  /\ Cardinality(kc_handlers) <= 1
  /\ \A i \in 1..Len(kc_invoked) : kc_invoked[i] = i
  /\ kc_last.op = "deliver" => kc_handlers = {kc_last.offset}

\* C8 witness: the handler for the third message runs, the first two are done
C8_ThirdHandlerRuns == Len(kc_invoked) = 3 /\ kc_handlers = {3}

\* C9: disconnect() on a consumer that is not running resolves, does not call
\* the underlying disconnect and changes no state; a successful disconnect()
\* leaves the consumer not running, so a further one is such a no-op.
C9_DisconnectIdempotent ==
  /\ [][(kc_last'.op = "disconnect" /\ ~kc_isRunning)
          => /\ kc_last'.status = "resolved"
             /\ ~kc_last'.libCalled
             /\ UNCHANGED <<kc_isRunning, kc_stats, kc_pc, kc_libConnected,
                            kc_libRunning, kc_offset, kc_callbacks,
                            kc_handlers, kc_invoked>>
             /\ kc_log' = <<"info: Consumer not running, nothing to disconnect">>]_vars
  /\ []((kc_last.op = "disconnected" /\ kc_last.underlying = "ok")
          => (~kc_isRunning /\ ~kc_stats.isRunning))

\* C9 witness: disconnect() was called again after a successful disconnect()
\* of a consumer that had been consuming
C9_SecondDisconnect ==
  /\ kc_last.op = "disconnect"
  /\ kc_last.status = "resolved"
  /\ ~kc_last.libCalled
  /\ Len(kc_invoked) > 0
  /\ ~kc_libRunning

\* ------------------------------------------ error propagation: claims
\* C10: KafkaConsumer.connect(), PostgresClient.connect(),
\* PostgresClient.query() and RedisCache.connect() reject with the error the
\* underlying operation failed with, and never resolve after such a failure.
C10_ErrorsPropagate ==
  /\ (kc_last.op = "connected" /\ kc_last.underlying \in Errors)
       => (kc_last.status = "rejected" /\ kc_last.error = kc_last.underlying)
  /\ (pg_last.op \in {"connected", "queried"} /\ pg_last.underlying \in Errors)
       => (pg_last.status = "rejected" /\ pg_last.error = pg_last.underlying)
  /\ (rc_last.op = "connected" /\ rc_last.underlying \in Errors)
       => (rc_last.status = "rejected" /\ rc_last.error = rc_last.underlying)

\* C10 witness: on a connected client a query failed with a timeout
C10_QueryFailedAfterConnect ==
  /\ pg_connected
  /\ pg_last.op = "queried"
  /\ pg_last.underlying = "ETIMEDOUT"

\* C11: processedCount and errorCount start at 0 with lastProcessedAt null and
\* never decrease, whatever connect, subscribe, deliveries and disconnect do.
C11_CountersMonotonic ==
  /\ [](kc_last.op = "new"
          => /\ kc_stats.processedCount = 0
             /\ kc_stats.errorCount = 0
             /\ kc_stats.lastProcessedAt = <<>>)
  /\ [][/\ kc_stats'.processedCount >= kc_stats.processedCount
        /\ kc_stats'.errorCount >= kc_stats.errorCount]_vars

\* C11 witness: a consumer that handled a message and failed on another has
\* disconnected
C11_CountedThenDisconnected ==
  /\ kc_last.op = "disconnected"
  /\ kc_last.underlying = "ok"
  /\ kc_stats.processedCount > 0
  /\ kc_stats.errorCount > 0

\* ------------------------------------------------ Construction: claims
\* C12: constructing any component without a documented required field
\* throws at construction, with no underlying client created.
C12_MissingFieldThrows ==
  (ct_last.op # "new" /\ ct_last.missing # {})
    => (ct_last.result.status = "threw" /\ ct_last.result.created = {})

\* C12 (the constructors alone): every constructor called with new, the
\* logger factory and the validator factory throw on a missing required field
C12_ConstructorsThrow ==
  (ct_last.op \notin {"new", "createRedisCache"} /\ ct_last.missing # {})
    => (ct_last.result.status = "threw" /\ ct_last.result.created = {})

\* --------------------------------------------------- RedisCache: claims
\* C13: get, set, delete and exists never reject. Not connected, or with the
\* store command or the (de)serialization failing, get resolves to null,
\* exists resolves to false, and set and delete resolve leaving the store as
\* it was.
C13_FailSoft ==
  /\ [](rs_last.status # "rejected")
  /\ [][(rs_last'.path \in {"skipped", "failed"})
          => /\ rs_last'.status = "resolved"
             /\ rs_last'.value = JNull
             /\ rs_last'.found = FALSE
             /\ rs_store' = rs_store]_vars

\* C13 witness: get() found a text in the store that is no JSON and resolved
C13_GetUnparsable ==
  /\ rs_last.op = "got"
  /\ rs_last.path = "failed"
  /\ rs_last.caught = "SyntaxError"
  /\ rs_last.status = "resolved"

\* C14: on a connected cache whose store answers, get(k) after a set(k, v)
\* that took effect, with no later set, delete or expiry of k, returns a value
\* deep-equal to v for every JSON-representable v; set writes and get reads
\* the store key "rr:" + k.
C14_RoundTrip ==
  /\ \A v \in JsonValues :
       (rs_last.op = "got" /\ rs_last.path = "ok"
          /\ rs_written[rs_last.key] = <<v>>)
         => (rs_last.found /\ rs_last.value = v)
  /\ rs_last.op = "stored" /\ rs_last.path = "ok"
       => /\ rs_last.stored = <<"r", "r", ":">> \o rs_last.key
          /\ rs_last.stored \in DOMAIN rs_store
  /\ (rs_cmd # <<>> /\ rs_cmd[1].op # "ping")
       => rs_cmd[1].fullKey = <<"r", "r", ":">> \o rs_cmd[1].key
  /\ DOMAIN rs_store \subseteq {<<"r", "r", ":">> \o k : k \in CacheKeys}

\* C14 witness: get() returned the object {id: 7, tags: [true, ""]} that a
\* set() had stored
C14_ObjectReadBack ==
  /\ rs_last.op = "got"
  /\ rs_last.path = "ok"
  /\ rs_last.value.t = "object"
  /\ rs_last.value.elems[2].elems[1] = JBool(TRUE)
  /\ rs_written[rs_last.key] = <<rs_last.value>>

C16_NoOpAnswers ==
  (cf_variant = "NoOpCache" /\ cf_last.op # "createRedisCache")
    => /\ cf_last.status = "resolved"
       /\ cf_last.op \in {"connect", "disconnect", "get", "set", "delete",
                          "exists", "isConnected", "healthCheck"}
       /\ cf_last.op = "get" => cf_last.returned = <<JNull>>
       /\ cf_last.op \in {"exists", "isConnected", "healthCheck"}
            => cf_last.returned = <<JBool(FALSE)>>
       /\ cf_last.op \in {"connect", "disconnect", "set", "delete"}
            => cf_last.returned = <<>>

\* C16 witness: get() on a NoOpCache right after a set()
C16_GetAfterSet ==
  /\ cf_variant = "NoOpCache"
  /\ cf_calls = <<"set", "get">>
  /\ cf_last.op = "get"
  /\ cf_last.returned = <<JNull>>

C18_FirstRowOrNull ==
  (pg_last.op = "queriedOne" /\ pg_last.underlying = "ok")
    => /\ pg_last.status = "resolved"
       /\ pg_last.rows = <<>> => pg_last.one = <<Null>>
       /\ pg_last.rows # <<>> => pg_last.one = <<pg_last.rows[1]>>

\* C18 witness: queryOne() resolved null for a query without rows
C18_NoRowsGiveNull ==
  /\ pg_last.op = "queriedOne"
  /\ pg_last.underlying = "ok"
  /\ pg_last.rows = <<>>
  /\ pg_last.one = <<Null>>

\* C19: PostgresClient.healthCheck() never rejects, before connect(), after
\* connect() and after disconnect(): it resolves true when SELECT 1
\* succeeded, and logs the failure and resolves false when it failed.
C19_HealthCheckNeverRejects ==
  pg_last.op = "healthChecked"
    => /\ pg_last.status = "resolved"
       /\ pg_last.underlying = "ok"
            => (pg_last.healthy = <<TRUE>> /\ pg_log = <<>>)
       /\ pg_last.underlying # "ok"
            => /\ pg_last.healthy = <<FALSE>>
               /\ pg_log = <<"error: Database health check failed">>

\* C19 witness: healthCheck() resolved false on a client whose pool
\* disconnect() had ended
C19_UnhealthyAfterDisconnect ==
  /\ pg_poolEnded
  /\ ~pg_connected
  /\ pg_last.op = "healthChecked"
  /\ pg_last.status = "resolved"
  /\ pg_last.healthy = <<FALSE>>

\* C20 as stated: for every error the handler is given, either the error has
\* a status and errors, and then a response with that status and the body
\* {status, message, errors: [{path, message, errorCode}]} is sent, a
\* warning is logged and next is not called; or next is called once with the
\* error itself and no response is written. Violated: an error with a status
\* and an errors field that is no array gets neither, the handler throws.
C20_RespondOrForward ==
  eh_last.op = "handled"
    => LET err == eh_last.err
           r == eh_last.result
       IN IF err.status # <<>> /\ err.status[1] # 0 /\ err.errors.kind # "absent"
          THEN /\ r.responded
               /\ r.statusCode = err.status[1]
               /\ r.body.status = err.status
               /\ Len(r.body.errors) = Len(err.errors.items)
               /\ r.log = <<"warn: OpenAPI validation error">>
               /\ r.nextArgs = <<>>
          ELSE /\ ~r.responded
               /\ r.nextArgs = <<err>>
               /\ r.log = <<>>

\* C20, the cases that hold: with an errors field that is an array or absent
\* the handler answers or forwards as stated, and fills in 'Validation
\* failed' and 'VALIDATION_ERROR' for a missing message and error code.
C20_ArrayErrorsHandled ==
  (eh_last.op = "handled" /\ eh_last.err.errors.kind # "object")
    => LET err == eh_last.err
           r == eh_last.result
       IN /\ r.threw = "-"
          /\ IF err.status # <<>> /\ err.status[1] # 0 /\ err.errors.kind = "array"
             THEN /\ r.responded
                  /\ r.statusCode = err.status[1]
                  /\ r.body.status = err.status
                  /\ r.body.message \in {"Validation failed",
                                         "request.body.name is required"}
                  /\ err.message = "request.body.name is required"
                       => r.body.message = err.message
                  /\ Len(r.body.errors) = Len(err.errors.items)
                  /\ \A i \in 1..Len(r.body.errors) :
                       /\ r.body.errors[i].path = err.errors.items[i].path
                       /\ r.body.errors[i].message = err.errors.items[i].message
                       /\ r.body.errors[i].errorCode
                            \in {"VALIDATION_ERROR", "type.openapi.validation"}
                  /\ r.log = <<"warn: OpenAPI validation error">>
                  /\ r.nextArgs = <<>>
             ELSE /\ ~r.responded
                  /\ r.nextArgs = <<err>>
                  /\ r.log = <<>>

\* C21 as stated: every optional field takes the value given in the
\* configuration whenever one is given, otherwise the environment variable
\* (for the logger's environment ENVIRONMENT, then NODE_ENV), otherwise its
\* literal default. Violated: PostgresClient, RedisCache and MetricsPusher
\* read their fields with ||, so a given empty string loses to the
\* environment and to the default.
C21_ConfigOverEnvOverDefault ==
  cg_last.field # "-"
    => cg_last.used =
         IF cg_last.given # Undefined THEN cg_last.given
         ELSE IF cg_last.env \notin {Undefined, ""} THEN cg_last.env
         ELSE IF cg_last.env2 # Undefined THEN cg_last.env2
         ELSE FieldDefault[cg_last.field]

\* C21, the cases that hold: a given value that is not the empty string wins
\* in every component, and an absent one falls back to the environment and
\* then to the default; createLogger keeps a given empty string too.
C21_NonEmptyConfigWins ==
  (cg_last.field # "-"
     /\ (cg_last.given # "" \/ cg_last.field \in {"loggerLevel",
                                 "loggerEnvironment", "loggerLokiHost"}))
    => cg_last.used =
         IF cg_last.given # Undefined THEN cg_last.given
         ELSE IF cg_last.env \notin {Undefined, ""} THEN cg_last.env
         ELSE IF cg_last.env2 # Undefined THEN cg_last.env2
         ELSE FieldDefault[cg_last.field]

\* C22: every logger createLogger() returns has the console transport; it
\* has the Loki transport only when lokiEnabled (of the config, else
\* LOKI_ENABLED = 'true') is true and NODE_ENV is not 'test'; when creating
\* the Loki transport throws, createLogger() still returns a logger, with
\* the console transport alone.
C22_ConsoleAlwaysLokiGuarded ==
  ct_last.op = "createLogger"
    => LET r == ct_last.result
           enabled == IF ct_logger.lokiEnabled = <<>>
                      THEN ct_logger.LOKI_ENABLED = "true"
                      ELSE ct_logger.lokiEnabled[1]
       IN /\ ct_logger.serviceName = "given" => r.status = "returned"
          /\ r.status = "returned"
               => /\ "Console" \in r.created
                  /\ r.created \subseteq {"Console", "LokiTransport"}
                  /\ "LokiTransport" \in r.created
                       => (enabled /\ ct_logger.NODE_ENV # "test")
                  /\ ct_logger.lokiThrows => r.created = {"Console"}

\* C22 witness: the Loki transport was enabled outside the test environment
\* and threw; the logger returned has the console transport only
C22_LokiThrewConsoleOnly ==
  /\ ct_last.op = "createLogger"
  /\ ct_logger.lokiEnabled = <<TRUE>>
  /\ ct_logger.NODE_ENV = "production"
  /\ ct_logger.lokiThrows
  /\ ct_logger.serviceName = "given"
  /\ ct_last.result.status = "returned"
  /\ ct_last.result.created = {"Console"}

\* C23: the GET /metrics handler never rejects; when the registry was read
\* it ends the response with the exposition text, status 200 and the
\* registry's content type; when reading the registry failed it logs the
\* error and ends the response with status 500.
C23_MetricsOr500 ==
  mr_last.op = "answered"
    => /\ mr_last.status = "resolved"
       /\ mr_res.ended
       /\ mr_last.underlying = "ok"
            => /\ mr_res.statusCode = 200
               /\ mr_res.contentType = "text/plain; version=0.0.4; charset=utf-8"
               /\ mr_res.body \in RegistryTexts
               /\ ~mr_res.errorBody
               /\ mr_log = <<>>
       /\ mr_last.underlying # "ok"
            => /\ mr_res.statusCode = 500
               /\ mr_res.errorBody
               /\ mr_log = <<"error: Error generating metrics">>

\* C23 witness: registry.metrics() failed after the content type was set,
\* and the response ended with status 500
C23_ReadFailedAnswered500 ==
  /\ mr_last.op = "answered"
  /\ mr_last.underlying = "ETIMEDOUT"
  /\ mr_res.contentType # Undefined
  /\ mr_res.statusCode = 500
  /\ mr_last.status = "resolved"

\* C24 as stated: of a snapshot's lines only the sample lines with a numeric
\* value token give a sample, named by the metric name in front of the label
\* block or the space, and valued by the number the token denotes, whatever
\* labels and timestamp the line carries; comment and blank lines, lines
\* without a value token and lines whose token is no number (NaN, +Inf) give
\* none. Violated: of a line whose token is no number and that carries a
\* timestamp, the timestamp is taken for the value.
C24_NameAndValuePerLine ==
  pl_last.op = "parsed"
    => LET first == pl_last.first
           second == pl_last.second
           valid == {l \in {first, second} : l.value \in NumberTokens}
       IN /\ DOMAIN pl_last.metrics = {l.name : l \in valid}
          /\ first.name # second.name
               => \A l \in valid : pl_last.metrics[l.name] = TokenNumber(l.value)

\* C24, the cases that hold: in a snapshot without a line that has both a
\* token that is no number and a timestamp, the samples are those of the
\* lines with a numeric token, and the timestamp of such a line is ignored.
C24_WithoutTimestampedNaN ==
  (pl_last.op = "parsed"
     /\ \A l \in {pl_last.first, pl_last.second} :
          l.value \in OtherTokens => l.ts = <<>>)
    => LET first == pl_last.first
           second == pl_last.second
           valid == {l \in {first, second} : l.value \in NumberTokens}
       IN /\ DOMAIN pl_last.metrics = {l.name : l \in valid}
          /\ first.name # second.name
               => \A l \in valid : pl_last.metrics[l.name] = TokenNumber(l.value)

\* C25 as stated: two lines of one snapshot that carry the same metric name
\* with different labels give one sample, with the value of the later of
\* the lines that have a numeric value; no snapshot gives two samples of
\* one name. Violated with C24: a later line NaN with a timestamp replaces
\* the value by its timestamp.
C25_LastLineWins ==
  (pl_last.op = "parsed" /\ pl_last.first.name = pl_last.second.name
     /\ pl_last.first.labels # pl_last.second.labels)
    => LET first == pl_last.first
           second == pl_last.second
           name == first.name
       IN /\ DOMAIN pl_last.metrics \subseteq {name}
          /\ second.value \in NumberTokens
               => pl_last.metrics[name] = TokenNumber(second.value)
          /\ (second.value \notin NumberTokens /\ first.value \in NumberTokens)
               => pl_last.metrics[name] = TokenNumber(first.value)

\* C25, the cases that hold: when neither line has both a token that is no
\* number and a timestamp, the later line with a numeric value gives the
\* one sample of the name.
C25_LastNumericLineWins ==
  (pl_last.op = "parsed" /\ pl_last.first.name = pl_last.second.name
     /\ pl_last.first.labels # pl_last.second.labels
     /\ \A l \in {pl_last.first, pl_last.second} :
          l.value \in OtherTokens => l.ts = <<>>)
    => LET first == pl_last.first
           second == pl_last.second
           name == first.name
       IN /\ DOMAIN pl_last.metrics \subseteq {name}
          /\ second.value \in NumberTokens
               => pl_last.metrics[name] = TokenNumber(second.value)
          /\ (second.value \notin NumberTokens /\ first.value \in NumberTokens)
               => pl_last.metrics[name] = TokenNumber(first.value)
          /\ (second.value \notin NumberTokens /\ first.value \notin NumberTokens)
               => DOMAIN pl_last.metrics = {}

\* C26 as stated: whatever the interleaving of start() and stop(), at most
\* one interval timer is live, and a live timer is the one intervalId
\* records. Violated: two start() calls separated by a stop() that came
\* while the first was awaiting its initial push both reach setInterval.
C26_OneTimerRecorded ==
  /\ Cardinality(mp_timers) <= 1
  /\ \A t \in mp_timers : t.id = mp_intervalId

\* C27 (RedisCache): in every reachable state isConnected() being true
\* implies that a client object exists, under any interleaving of connect(),
\* disconnect() and client events, two overlapping connect() calls included.
C27_ConnectedHasClient ==
  IsRc => (rc_connected => rc_client # 0)

\* the steps in which a data operation or healthCheck() is called
RsCalls == {"get", "set", "delete", "exists", "healthCheck"}

\* what C28 says of the operations called while the flag is false: they
\* resolve at their guard with null or false, send no store command and
\* leave the store as it is; and an 'error' or 'disconnect' listener leaves
\* the flag false
C28_DownInterval ==
  /\ [](IsRc /\ rc_last.op = "event" /\ rc_last.underlying # "connect"
          => ~rc_connected)
  /\ [][(IsRc /\ ~rc_connected /\ rs_last'.op \in RsCalls /\ rs_cmd = <<>>)
          => /\ rs_last'.path = "skipped" /\ rs_last'.status = "resolved"
             /\ rs_last'.value = JNull /\ rs_last'.found = FALSE
             /\ rs_cmd' = <<>> /\ rs_store' = rs_store]_vars

\* C28 (RedisCache): once the client emits an 'error' or 'disconnect' event
\* the connected flag is false and stays false until a connect() call made
\* later than the event succeeds; in that interval get returns null, exists
\* and healthCheck return false, set and delete do nothing, all without
\* contacting the store; nothing else sets the flag back to true.
C28_FalseUntilLaterCall ==
  /\ C28_DownInterval
  /\ [][(IsRc /\ ~rc_connected /\ rc_connected')
          => /\ rc_last'.op = "connected" /\ rc_last'.status = "resolved"
             /\ rc_last'.client \notin rc_early]_vars

\* C28, amended: the flag stays false until a connect() call succeeds after
\* the event, whether that call was made after the event or was already
\* awaiting its client when the event fired; the rest as stated.
C28_FalseUntilConnectSucceeds ==
  /\ C28_DownInterval
  /\ [][(IsRc /\ ~rc_connected /\ rc_connected')
          => (rc_last'.op = "connected" /\ rc_last'.status = "resolved")]_vars

\* C28: an event has fired while a connect() call awaited, a client exists,
\* and a healthCheck() called since resolved at its guard
C28_SkippedAfterEvent ==
  /\ IsRc /\ rc_early # {} /\ rc_client # 0 /\ ~rc_connected
  /\ rs_last.op = "healthCheck" /\ rs_last.path = "skipped"

\* C29 (KafkaConsumer): when the underlying disconnect fails while the
\* consumer is running, disconnect() resolves and leaves isRunning and
\* stats.isRunning true and the rest of the state as it was, so that a later
\* disconnect() calls the underlying disconnect again; isRunning and
\* stats.isRunning are equal in every reachable state.
C29_FailedDisconnectRetried ==
  /\ [](IsKc => kc_isRunning = kc_stats.isRunning)
  /\ [](IsKc /\ kc_last.op = "disconnected" /\ kc_last.underlying # "ok"
          => /\ kc_last.status = "resolved"
             /\ kc_isRunning /\ kc_stats.isRunning)
  /\ [][(IsKc /\ kc_last'.op = "disconnected" /\ kc_last'.underlying # "ok"
           /\ kc_pc.disconnect = "await")
          => /\ kc_isRunning' = kc_isRunning /\ kc_stats' = kc_stats
             /\ kc_libConnected' = kc_libConnected
             /\ kc_libRunning' = kc_libRunning]_vars
  /\ [][(IsKc /\ kc_isRunning /\ kc_pc.disconnect = "idle"
           /\ kc_last'.op = "disconnect")
          => (kc_last'.libCalled /\ kc_pc'.disconnect = "await")]_vars

\* C29: the underlying disconnect failed on a running consumer, and
\* disconnect() has returned
C29_DisconnectFailedWhileRunning ==
  /\ IsKc /\ kc_last.op = "disconnected" /\ kc_last.underlying # "ok"
  /\ kc_isRunning /\ kc_pc.disconnect = "idle"

\* C30 (KafkaConsumer): every message delivered to the per-message callback
\* increases exactly one of processedCount and errorCount by exactly 1 and
\* sets lastProcessedAt; in every reachable state processedCount +
\* errorCount is the number of completed handler invocations.
C30_OneCountPerMessage ==
  /\ [](IsKc => kc_stats.processedCount + kc_stats.errorCount
                  = Len(kc_invoked) - Cardinality(kc_handlers))
  /\ [][(IsKc /\ kc_last'.op = "handled" /\ kc_handlers' # kc_handlers)
          => /\ \/ /\ kc_stats'.processedCount = kc_stats.processedCount + 1
                   /\ kc_stats'.errorCount = kc_stats.errorCount
                   /\ ~kc_last'.thrown
                \/ /\ kc_stats'.errorCount = kc_stats.errorCount + 1
                   /\ kc_stats'.processedCount = kc_stats.processedCount
                   /\ kc_last'.thrown
             /\ kc_stats'.lastProcessedAt = <<kc_clock>>]_vars

\* C30: handler invocations have both returned and thrown, and one is in
\* flight
C30_BothCountersMoved ==
  /\ IsKc /\ kc_stats.processedCount >= 1 /\ kc_stats.errorCount >= 1
  /\ kc_handlers # {}

====
